---------------------------- MODULE Spec2Model ----------------------------
(***************************************************************************)
(* The speech-recognition hook of the ambient scribe component             *)
(* (src/src/components/AmbientScribe.tsx, useSpeechRecognition) together   *)
(* with the recognition engine it drives.                                  *)
(*                                                                         *)
(* A JavaScript string is a sequence of one-character strings, so that     *)
(* trim, concatenation, toLowerCase and includes are computed as the code  *)
(* computes them.  A nullable string (error: string | null) is <<>> for    *)
(* null and <<s>> for the string s.  A recognition result is a record      *)
(* [isFinal, alternatives] whose alternatives are the transcripts of its   *)
(* alternatives in rank order; a result without alternatives has <<>>.     *)
(***************************************************************************)
EXTENDS Integers, Sequences, FiniteSets, TLC

(***************************************************************************)
(* Bounds of the model.                                                    *)
(***************************************************************************)
\* longest results list an event carries
MaxResults == 2
\* most engine events dispatched and not yet handled
MaxInflight == 1
\* longest finalTranscript built (the length of "chest pain for two days")
MaxFinalLen == 23
MaxExtractions == 2
MaxStops == 3
MaxMessages == 2

\* the TypeError of a template literal on an object that has a member named toString
MsgNotPrimitive ==
    <<"C", "a", "n", "n", "o", "t", " ", "c", "o", "n", "v", "e", "r", "t", " ", "o", "b", "j",
    "e", "c", "t", " ", "t", "o", " ", "p", "r", "i", "m", "i", "t", "i", "v", "e", " ", "v",
    "a", "l", "u", "e">>

TxtToString ==
    <<"t", "o", "S", "t", "r", "i", "n", "g">>

\* the TypeError of reading a property of null (parsed.symptoms when the reply is the JSON null)
MsgNullSymptoms ==
    <<"C", "a", "n", "n", "o", "t", " ", "r", "e", "a", "d", " ", "p", "r", "o", "p", "e", "r",
    "t", "i", "e", "s", " ", "o", "f", " ", "n", "u", "l", "l", " ", "(", "r", "e", "a", "d",
    "i", "n", "g", " ", "'", "s", "y", "m", "p", "t", "o", "m", "s", "'", ")">>

\* the toString of a plain object
TxtObjectObject ==
    <<"[", "o", "b", "j", "e", "c", "t", " ", "O", "b", "j", "e", "c", "t", "]">>

\* the role of the model's entries in chat_history, lower-cased
TxtChatbot ==
    <<"c", "h", "a", "t", "b", "o", "t">>

\* the fields of ClinicalData
TxtSymptoms ==
    <<"s", "y", "m", "p", "t", "o", "m", "s">>

TxtHistory ==
    <<"h", "i", "s", "t", "o", "r", "y">>

TxtAssessment ==
    <<"a", "s", "s", "e", "s", "s", "m", "e", "n", "t">>

TxtMedications ==
    <<"m", "e", "d", "i", "c", "a", "t", "i", "o", "n", "s">>

TxtPlan ==
    <<"p", "l", "a", "n">>

(***************************************************************************)
(* The message literals of the hook.                                       *)
(***************************************************************************)
MsgNotSupported ==
    <<"S", "p", "e", "e", "c", "h", " ", "r", "e", "c", "o", "g", "n", "i", "t", "i", "o", "n",
    " ", "i", "s", " ", "n", "o", "t", " ", "s", "u", "p", "p", "o", "r", "t", "e", "d", " ",
    "i", "n", " ", "t", "h", "i", "s", " ", "b", "r", "o", "w", "s", "e", "r", ".">>
MsgNotAvailable ==
    <<"S", "p", "e", "e", "c", "h", " ", "r", "e", "c", "o", "g", "n", "i", "t", "i", "o", "n",
    " ", "i", "s", " ", "n", "o", "t", " ", "a", "v", "a", "i", "l", "a", "b", "l", "e", ".">>
MsgErrorPrefix ==
    <<"S", "p", "e", "e", "c", "h", " ", "r", "e", "c", "o", "g", "n", "i", "t", "i", "o", "n",
    " ", "e", "r", "r", "o", "r", ":", " ">>
MsgErrorGeneric ==
    <<"S", "p", "e", "e", "c", "h", " ", "r", "e", "c", "o", "g", "n", "i", "t", "i", "o", "n",
    " ", "e", "r", "r", "o", "r", " ", "o", "c", "c", "u", "r", "r", "e", "d", ".">>
MsgUnableToStart ==
    <<"U", "n", "a", "b", "l", "e", " ", "t", "o", " ", "s", "t", "a", "r", "t", " ", "s", "p",
    "e", "e", "c", "h", " ", "r", "e", "c", "o", "g", "n", "i", "t", "i", "o", "n", ".">>
\* the messages of handleGenerateDraft and of extractClinicalData, the message
\* of an Error thrown by the chat client, and an API key
MsgTranscriptEmpty ==
    <<"T", "r", "a", "n", "s", "c", "r", "i", "p", "t", " ", "i", "s", " ", "e", "m", "p", "t",
    "y", ";", " ", "p", "l", "e", "a", "s", "e", " ", "c", "a", "p", "t", "u", "r", "e", " ",
    "a", "u", "d", "i", "o", " ", "f", "i", "r", "s", "t", ".">>
MsgFailedToExtract ==
    <<"F", "a", "i", "l", "e", "d", " ", "t", "o", " ", "e", "x", "t", "r", "a", "c", "t", " ",
    "c", "l", "i", "n", "i", "c", "a", "l", " ", "d", "a", "t", "a", ".">>
MsgMissingKey ==
    <<"M", "i", "s", "s", "i", "n", "g", " ", "C", "o", "h", "e", "r", "e", " ", "A", "P", "I",
    " ", "k", "e", "y", " ", "(", "s", "e", "t", " ", "C", "O", "H", "E", "R", "E", "_", "A",
    "P", "I", "_", "K", "E", "Y", ")">>
MsgCannotExtract ==
    <<"T", "r", "a", "n", "s", "c", "r", "i", "p", "t", " ", "i", "s", " ", "e", "m", "p", "t",
    "y", ";", " ", "c", "a", "n", "n", "o", "t", " ", "e", "x", "t", "r", "a", "c", "t", " ",
    "c", "l", "i", "n", "i", "c", "a", "l", " ", "d", "a", "t", "a", ".">>
MsgEmptyContent ==
    <<"C", "o", "h", "e", "r", "e", " ", "A", "P", "I", " ", "r", "e", "t", "u", "r", "n", "e",
    "d", " ", "e", "m", "p", "t", "y", " ", "c", "o", "n", "t", "e", "n", "t">>
MsgNotJson ==
    <<"C", "o", "h", "e", "r", "e", " ", "r", "e", "s", "p", "o", "n", "s", "e", " ", "w", "a",
    "s", " ", "n", "o", "t", " ", "v", "a", "l", "i", "d", " ", "J", "S", "O", "N">>
MsgUnexpected ==
    <<"U", "n", "e", "x", "p", "e", "c", "t", "e", "d", " ", "e", "r", "r", "o", "r", " ", "d",
    "u", "r", "i", "n", "g", " ", "e", "x", "t", "r", "a", "c", "t", "C", "l", "i", "n", "i",
    "c", "a", "l", "D", "a", "t", "a">>
MsgNetwork ==
    <<"N", "e", "t", "w", "o", "r", "k", " ", "r", "e", "q", "u", "e", "s", "t", " ", "f", "a",
    "i", "l", "e", "d">>
TxtKey ==
    <<"k", "e", "y">>

\* the status labels; "U+2026" stands for the one character HORIZONTAL ELLIPSIS
LabelErrorPrefix ==
    <<"E", "r", "r", "o", "r", ":", " ">>
LabelIdle ==
    <<"I", "d", "l", "e">>
LabelListening ==
    <<"L", "i", "s", "t", "e", "n", "i", "n", "g", "U+2026">>
NeedleNotSupported ==
    <<"n", "o", "t", " ", "s", "u", "p", "p", "o", "r", "t", "e", "d">>

(***************************************************************************)
(* What the engine may hand to the hook: the message of the exception its  *)
(* start() throws when it is already started, the message of another       *)
(* exception it may throw, and an error code of its error event.           *)
(***************************************************************************)
MsgAlreadyStarted ==
    <<"r", "e", "c", "o", "g", "n", "i", "t", "i", "o", "n", " ", "h", "a", "s", " ", "a", "l",
    "r", "e", "a", "d", "y", " ", "s", "t", "a", "r", "t", "e", "d", ".">>
MsgOperationNotSupported ==
    <<"T", "h", "e", " ", "o", "p", "e", "r", "a", "t", "i", "o", "n", " ", "i", "s", " ", "n",
    "o", "t", " ", "s", "u", "p", "p", "o", "r", "t", "e", "d", ".">>
CodeNoSpeech ==
    <<"n", "o", "-", "s", "p", "e", "e", "c", "h">>

(***************************************************************************)
(* Transcripts the engine reports for a result's first alternative.        *)
(***************************************************************************)
TxtChestPain ==
    <<"c", "h", "e", "s", "t", " ", "p", "a", "i", "n">>
TxtForTwo ==
    <<"f", "o", "r", " ", "t", "w", "o">>
TxtForTwoDays ==
    <<"f", "o", "r", " ", "t", "w", "o", " ", "d", "a", "y", "s">>
TxtPadded ==
    <<" ", "f", "o", "r", " ", "t", "w", "o", "\n">>
TxtEmpty == <<>>
TxtBlank ==
    <<" ", "\t">>

(***************************************************************************)
(* JavaScript strings.                                                     *)
(***************************************************************************)
\* the white space String.prototype.trim removes, as far as the inputs have it
WhiteSpace == {" ", "\t", "\n"}

\* the separator of the template literals `${a} ${b}`
SP == <<" ">>

RECURSIVE trimStart(_)
trimStart(s) ==
    IF s # <<>> /\ Head(s) \in WhiteSpace THEN trimStart(Tail(s)) ELSE s

RECURSIVE trimEnd(_)
trimEnd(s) ==
    IF s # <<>> /\ s[Len(s)] \in WhiteSpace
    THEN trimEnd(SubSeq(s, 1, Len(s) - 1))
    ELSE s

\* trim as a slip would have it: only the leading white space removed
trimLeadingOnly(s) == trimStart(s)

\* String.prototype.trim
trim(s) == trimEnd(trimStart(s))

UpperLetters ==
    <<"A", "B", "C", "D", "E", "F", "G", "H", "I", "J", "K", "L", "M",
      "N", "O", "P", "Q", "R", "S", "T", "U", "V", "W", "X", "Y", "Z">>

LowerLetters ==
    <<"a", "b", "c", "d", "e", "f", "g", "h", "i", "j", "k", "l", "m",
      "n", "o", "p", "q", "r", "s", "t", "u", "v", "w", "x", "y", "z">>

\* String.prototype.toLowerCase
toLowerCase(s) ==
    [i \in 1..Len(s) |->
        IF \E k \in 1..Len(UpperLetters) : UpperLetters[k] = s[i]
        THEN LowerLetters[CHOOSE k \in 1..Len(UpperLetters) : UpperLetters[k] = s[i]]
        ELSE s[i]]

\* String.prototype.includes
includes(s, needle) ==
    \E i \in 0..(Len(s) - Len(needle)) : SubSeq(s, i + 1, i + Len(needle)) = needle

\* the null of a nullable string, and the test `value ? ... : ...` on one
Null == <<>>
truthy(value) == value # Null /\ value[1] # <<>>

(***************************************************************************)
(* mapTranscriptSegments: the loop over list[startIndex .. length-1].      *)
(* index is the 0-based index of the code; list[index] is list[index + 1]  *)
(* of the sequence.                                                        *)
(***************************************************************************)
\* the loop as a slip would have it: a result without text is appended like
\* any other, as the empty text
RECURSIVE scanResultsNoSkip(_, _, _, _)
scanResultsNoSkip(list, index, final, interim) ==
    IF ~(index < Len(list))
    THEN [final |-> final, interim |-> interim]
    ELSE LET result == list[index + 1]
             text == IF result.alternatives = <<>>
                     THEN <<>>
                     ELSE trim(result.alternatives[1])
         IN  IF result.isFinal
             THEN scanResultsNoSkip(list, index + 1,
                                    IF final # <<>> THEN final \o SP \o text ELSE text,
                                    interim)
             ELSE scanResultsNoSkip(list, index + 1, final,
                                    IF interim # <<>> THEN interim \o SP \o text ELSE text)

RECURSIVE scanResults(_, _, _, _)
scanResults(list, index, final, interim) ==
    IF ~(index < Len(list))
    THEN [final |-> final, interim |-> interim]
    ELSE LET result == list[index + 1]
             \* alternative?.transcript?.trim(): undefined without an alternative
             text == IF result.alternatives = <<>>
                     THEN <<>>
                     ELSE trim(result.alternatives[1])
         IN  IF text = <<>>
             THEN scanResults(list, index + 1, final, interim)
             ELSE IF result.isFinal
                  THEN scanResults(list, index + 1,
                                   IF final # <<>> THEN final \o SP \o text ELSE text,
                                   interim)
                  ELSE scanResults(list, index + 1, final,
                                   IF interim # <<>> THEN interim \o SP \o text ELSE text)

\* mapTranscriptSegments as a slip would have it: the scan starts at 0
mapTranscriptSegmentsFromZero(list, startIndex) ==
    scanResults(list, 0, <<>>, <<>>)

mapTranscriptSegments(list, startIndex) ==
    scanResults(list, startIndex, <<>>, <<>>)

(***************************************************************************)
(* The handlers of the hook, as functions of its React state               *)
(* st = [isListening, error, interimTranscript, finalTranscript].          *)
(***************************************************************************)
\* onresult as slips would have it: the final segment appended without the
\* separator; the interim set only when the event has no final text; the
\* interim text of an event without final text committed to the final
\* transcript; an empty interim segment not written
onresultNoSpace(st, event) ==
    LET segments == mapTranscriptSegments(event.results, event.resultIndex)
        withInterim == [st EXCEPT !.interimTranscript = segments.interim]
    IN  IF segments.final # <<>>
        THEN [withInterim EXCEPT !.finalTranscript =
                 trim(st.finalTranscript \o segments.final)]
        ELSE withInterim

onresultEitherOr(st, event) ==
    LET segments == mapTranscriptSegments(event.results, event.resultIndex)
    IN  IF segments.final # <<>>
        THEN [st EXCEPT !.finalTranscript =
                 IF st.finalTranscript # <<>>
                 THEN trim(st.finalTranscript \o SP \o segments.final)
                 ELSE segments.final]
        ELSE [st EXCEPT !.interimTranscript = segments.interim]

onresultCommitInterim(st, event) ==
    LET segments == mapTranscriptSegments(event.results, event.resultIndex)
        withInterim == [st EXCEPT !.interimTranscript = segments.interim]
        segment == IF segments.final # <<>> THEN segments.final ELSE segments.interim
    IN  IF segment # <<>>
        THEN [withInterim EXCEPT !.finalTranscript =
                 IF st.finalTranscript # <<>>
                 THEN trim(st.finalTranscript \o SP \o segment)
                 ELSE segment]
        ELSE withInterim

onresultAppendInterim(st, event) ==
    LET segments == mapTranscriptSegments(event.results, event.resultIndex)
        withInterim == [st EXCEPT !.interimTranscript =
                           IF st.interimTranscript # <<>> /\ segments.interim # <<>>
                           THEN st.interimTranscript \o SP \o segments.interim
                           ELSE segments.interim]
    IN  IF segments.final # <<>>
        THEN [withInterim EXCEPT !.finalTranscript =
                 IF st.finalTranscript # <<>>
                 THEN trim(st.finalTranscript \o SP \o segments.final)
                 ELSE segments.final]
        ELSE withInterim

onresultKeepInterim(st, event) ==
    LET segments == mapTranscriptSegments(event.results, event.resultIndex)
        withInterim == IF segments.interim # <<>>
                       THEN [st EXCEPT !.interimTranscript = segments.interim]
                       ELSE st
    IN  IF segments.final # <<>>
        THEN [withInterim EXCEPT !.finalTranscript =
                 IF st.finalTranscript # <<>>
                 THEN trim(st.finalTranscript \o SP \o segments.final)
                 ELSE segments.final]
        ELSE withInterim

\* recognition.onresult
onresult(st, event) ==
    LET segments == mapTranscriptSegments(event.results, event.resultIndex)
        withInterim == [st EXCEPT !.interimTranscript = segments.interim]
    IN  IF segments.final # <<>>
        THEN [withInterim EXCEPT !.finalTranscript =
                 IF st.finalTranscript # <<>>
                 THEN trim(st.finalTranscript \o SP \o segments.final)
                 ELSE segments.final]
        ELSE withInterim

\* the handlers as slips would have them: onerror clearing the interim text
\* as onend does, onend leaving it
onerrorClearInterim(st, code) ==
    [st EXCEPT !.error = <<IF code # <<>> THEN MsgErrorPrefix \o code ELSE MsgErrorGeneric>>,
               !.isListening = FALSE, !.interimTranscript = <<>>]

onendKeepInterim(st) ==
    [st EXCEPT !.isListening = FALSE]

\* onend as a slip would have it: a handler that sets nothing
onendIdle(st) == st

\* onend as a slip would have it: only the interim text is cleared
onendKeepListening(st) ==
    [st EXCEPT !.interimTranscript = <<>>]

\* recognition.onerror; code is event.error
onerror(st, code) ==
    [st EXCEPT !.error = <<IF code # <<>> THEN MsgErrorPrefix \o code ELSE MsgErrorGeneric>>,
               !.isListening = FALSE]

\* recognition.onend
onend(st) ==
    [st EXCEPT !.isListening = FALSE, !.interimTranscript = <<>>]

\* what recognition.start() or recognition.stop() did: it returned, threw an
\* Error with a message, or threw a value that is no Error
Returned == [kind |-> "returned", message |-> <<>>]
ThrewError(message) == [kind |-> "error", message |-> message]
ThrewOther == [kind |-> "other", message |-> <<>>]

\* startListening as slips would have it: isListening set before start() is
\* called; the final transcript reset by a start that succeeds
startListeningEager(st, ref, outcome) ==
    IF ref = "null"
    THEN [st EXCEPT !.error = <<MsgNotAvailable>>]
    ELSE IF outcome.kind = "returned"
         THEN [st EXCEPT !.error = Null, !.isListening = TRUE]
         ELSE [st EXCEPT !.isListening = TRUE,
                         !.error = <<IF outcome.kind = "error"
                                     THEN outcome.message
                                     ELSE MsgUnableToStart>>]

startListeningFresh(st, ref, outcome) ==
    IF ref = "null"
    THEN [st EXCEPT !.error = <<MsgNotAvailable>>]
    ELSE IF outcome.kind = "returned"
         THEN [st EXCEPT !.error = Null, !.isListening = TRUE, !.finalTranscript = <<>>]
         ELSE [st EXCEPT !.error =
                  <<IF outcome.kind = "error" THEN outcome.message ELSE MsgUnableToStart>>]

\* startListening as a slip would have it: an exception of start() is
\* swallowed, as stopListening swallows one of stop()
startListeningSilent(st, ref, outcome) ==
    IF ref = "null"
    THEN [st EXCEPT !.error = <<MsgNotAvailable>>]
    ELSE IF outcome.kind = "returned"
         THEN [st EXCEPT !.error = Null, !.isListening = TRUE]
         ELSE [st EXCEPT !.error = Null]

\* startListening as a slip would have it: the error of an earlier attempt is
\* not cleared
startListeningKeepError(st, ref, outcome) ==
    IF ref = "null"
    THEN [st EXCEPT !.error = <<MsgNotAvailable>>]
    ELSE IF outcome.kind = "returned"
         THEN [st EXCEPT !.isListening = TRUE]
         ELSE [st EXCEPT !.error =
                  <<IF outcome.kind = "error" THEN outcome.message ELSE MsgUnableToStart>>]

\* startListening; ref is recognitionRef.current, outcome what start() did
startListening(st, ref, outcome) ==
    IF ref = "null"
    THEN [st EXCEPT !.error = <<MsgNotAvailable>>]
    ELSE IF outcome.kind = "returned"
         THEN [st EXCEPT !.error = Null, !.isListening = TRUE]
         ELSE [st EXCEPT !.error =
                  <<IF outcome.kind = "error" THEN outcome.message ELSE MsgUnableToStart>>]

\* stopListening as a slip would have it: no try around stop(), so that an
\* exception leaves the function before the state is set
stopListeningNoCatch(st, ref, outcome) ==
    IF ref = "null" \/ outcome.kind # "returned"
    THEN st
    ELSE [st EXCEPT !.isListening = FALSE, !.interimTranscript = <<>>]

\* stopListening as a slip would have it: both transcripts cleared
stopListeningClearAll(st, ref, outcome) ==
    IF ref = "null"
    THEN st
    ELSE [st EXCEPT !.isListening = FALSE, !.interimTranscript = <<>>,
                    !.finalTranscript = <<>>]

\* stopListening; outcome is what stop() did, which the catch swallows
stopListening(st, ref, outcome) ==
    IF ref = "null"
    THEN st
    ELSE [st EXCEPT !.isListening = FALSE, !.interimTranscript = <<>>]

\* the cleanup of the mount effect as a slip would have it: the handlers are
\* cleared after stop(), and only when it returned
cleanupAfterStop(registered, ref, stopOutcome, abortOutcome) ==
    [handlers |-> registered /\ stopOutcome.kind # "returned", recognitionRef |-> "null"]

\* the cleanup of the mount effect: the three handlers are set to null, then
\* stop() and abort() are called with their exceptions caught, then the
\* handle is set to null
cleanup(registered, ref, stopOutcome, abortOutcome) ==
    [handlers |-> FALSE, recognitionRef |-> "null"]

\* recognitionUnavailable as a slip would have it: it looks for the words of
\* startListening's message, 'not available'
recognitionUnavailableByHandle(st) ==
    IF truthy(st.error)
    THEN includes(toLowerCase(st.error[1]),
                  <<"n", "o", "t", " ", "a", "v", "a", "i", "l", "a", "b", "l", "e">>)
    ELSE FALSE

\* the component's derived flags
recognitionUnavailable(st) ==
    IF truthy(st.error)
    THEN includes(toLowerCase(st.error[1]), NeedleNotSupported)
    ELSE FALSE

statusLabel(st) ==
    IF truthy(st.error)
    THEN LabelErrorPrefix \o st.error[1]
    ELSE IF st.isListening THEN LabelListening ELSE LabelIdle

startDisabled(st) == st.isListening \/ recognitionUnavailable(st)

stopDisabled(st) == ~st.isListening

(***************************************************************************)
(* The draft: extractClinicalData of the api module and handleGenerateDraft *)
(* of the component.  A reply of the chat client is a CohereChatResponse:  *)
(* message.content, text and chat_history, each of which may be missing.   *)
(***************************************************************************)
\* String.prototype.startsWith
startsWith(s, prefix) ==
    Len(s) >= Len(prefix) /\ SubSeq(s, 1, Len(prefix)) = prefix

\* Array.prototype.join
RECURSIVE join(_, _)
join(texts, separator) ==
    IF texts = <<>>
    THEN <<>>
    ELSE IF Len(texts) = 1
    THEN Head(texts)
    ELSE Head(texts) \o separator \o join(Tail(texts), separator)

\* map(text => text.trim()).filter(Boolean) over an array of strings
RECURSIVE trimAndFilter(_)
trimAndFilter(items) ==
    IF items = <<>>
    THEN <<>>
    ELSE (IF trim(Head(items)) # <<>> THEN <<trim(Head(items))>> ELSE <<>>)
         \o trimAndFilter(Tail(items))

\* extractText; content is null when it is no array, and a part is null
\* when it has no text
extractText(content) ==
    IF content = Null
    THEN <<>>
    ELSE LET parts == content[1]
             texts == [k \in 1..Len(parts) |->
                          IF parts[k] = Null THEN <<>> ELSE parts[k][1]]
         IN  trim(join(trimAndFilter(texts), SP))

\* the three grave accents of a code fence; a grave accent is written U+0060
Fence == <<"U+0060", "U+0060", "U+0060">>

AsciiLetters ==
    {UpperLetters[k] : k \in 1..Len(UpperLetters)}
        \cup {LowerLetters[k] : k \in 1..Len(LowerLetters)}

RECURSIVE dropWhile(_, _)
dropWhile(s, chars) ==
    IF s # <<>> /\ Head(s) \in chars THEN dropWhile(Tail(s), chars) ELSE s

\* the first replace of stripCodeFence, on a text that starts with the
\* fence: the first match of the fence, letters and white space is the one
\* at the start of the text
removeOpeningFence(s) ==
    dropWhile(dropWhile(SubSeq(s, Len(Fence) + 1, Len(s)), AsciiLetters), WhiteSpace)

\* the length of the run of white space that starts at index j
RECURSIVE spaceRun(_, _)
spaceRun(s, j) ==
    IF j <= Len(s) /\ s[j] \in WhiteSpace THEN 1 + spaceRun(s, j + 1) ELSE 0

\* the length of what the second pattern of stripCodeFence matches at index
\* i, 0 when it does not match there: the fence, then the longest white
\* space after which the text or a line ends
closingFenceAt(s, i) ==
    IF i + Len(Fence) - 1 > Len(s) \/ SubSeq(s, i, i + Len(Fence) - 1) # Fence
    THEN 0
    ELSE LET j == i + Len(Fence)
             w == spaceRun(s, j)
             newlines == {k \in j..(j + w - 1) : s[k] = "\n"}
         IN  IF j + w > Len(s)
             THEN Len(Fence) + w
             ELSE IF newlines # {}
             THEN Len(Fence) + ((CHOOSE k \in newlines : \A n \in newlines : n <= k) - j)
             ELSE 0

\* the second replace of stripCodeFence: the first match is removed
removeClosingFence(s) ==
    LET at == {i \in 1..Len(s) : closingFenceAt(s, i) > 0}
    IN  IF at = {}
        THEN s
        ELSE LET i == CHOOSE k \in at : \A n \in at : k <= n
             IN  SubSeq(s, 1, i - 1) \o SubSeq(s, i + closingFenceAt(s, i), Len(s))

stripCodeFence(text) ==
    LET fenced == trim(text)
    IN  IF startsWith(fenced, Fence)
        THEN trim(removeClosingFence(removeOpeningFence(fenced)))
        ELSE fenced

(***************************************************************************)
(* JSON.parse, on the JSON the replies are written in: objects, arrays,    *)
(* strings with the escapes of the quote, the backslash, the slash, the    *)
(* line feed and the tab, integer literals, true, false and null.  A value *)
(* is its type t and its content v: the characters of a string or of a     *)
(* number as String prints it, the elements of an array, the members of an *)
(* object.                                                                 *)
(***************************************************************************)
JsonValue(t, v) == [t |-> t, v |-> v]

Undefined == JsonValue("undefined", <<>>)

Parsed(value, next) == [ok |-> TRUE, value |-> value, next |-> next]

NotParsed == [ok |-> FALSE, value |-> Undefined, next |-> 1]

TxtNull == <<"n", "u", "l", "l">>

TxtTrue == <<"t", "r", "u", "e">>

TxtFalse == <<"f", "a", "l", "s", "e">>

TxtUndefined == <<"u", "n", "d", "e", "f", "i", "n", "e", "d">>

\* the character an escape sequence stands for
Escapes ==
    [c \in {"\"", "\\", "/", "n", "t"} |->
        IF c = "n" THEN "\n" ELSE IF c = "t" THEN "\t" ELSE c]

RECURSIVE skipWhiteSpace(_, _)
skipWhiteSpace(s, i) ==
    IF i <= Len(s) /\ s[i] \in WhiteSpace THEN skipWhiteSpace(s, i + 1) ELSE i

literalAt(s, i, word) ==
    i + Len(word) - 1 <= Len(s) /\ SubSeq(s, i, i + Len(word) - 1) = word

\* a string, from the character after its opening quote
RECURSIVE scanString(_, _, _)
scanString(s, j, acc) ==
    IF j > Len(s)
    THEN NotParsed
    ELSE IF s[j] = "\""
    THEN Parsed(JsonValue("string", acc), j + 1)
    ELSE IF s[j] \in {"\t", "\n"}
    THEN NotParsed
    ELSE IF s[j] = "\\"
    THEN IF j + 1 <= Len(s) /\ s[j + 1] \in DOMAIN Escapes
         THEN scanString(s, j + 2, Append(acc, Escapes[s[j + 1]]))
         ELSE NotParsed
    ELSE scanString(s, j + 1, Append(acc, s[j]))

(***************************************************************************)
(* The number JSON.parse reads from an integer literal is a double, and    *)
(* String prints the shortest decimal that reads back as that double.      *)
(* Integers are sequences of decimal digits, most significant first.       *)
(***************************************************************************)
DigitChars == <<"0", "1", "2", "3", "4", "5", "6", "7", "8", "9">>

Digits == {DigitChars[k] : k \in 1..Len(DigitChars)}

digitsOf(chars) ==
    [k \in 1..Len(chars) |-> (CHOOSE d \in 1..Len(DigitChars) : DigitChars[d] = chars[k]) - 1]

charsOf(digits) == [k \in 1..Len(digits) |-> DigitChars[digits[k] + 1]]

\* the decimal digits of a small natural number
RECURSIVE natToChars(_)
natToChars(n) ==
    IF n < 10 THEN <<DigitChars[n + 1]>> ELSE natToChars(n \div 10) \o <<DigitChars[(n % 10) + 1]>>

stripZeros(a) ==
    LET nonZero == {k \in 1..Len(a) : a[k] # 0}
    IN  IF nonZero = {}
        THEN <<0>>
        ELSE SubSeq(a, CHOOSE k \in nonZero : \A n \in nonZero : k <= n, Len(a))

zeros(n) == [k \in 1..n |-> 0]

less(a, b) ==
    \/ Len(a) < Len(b)
    \/ /\ Len(a) = Len(b)
       /\ \E k \in 1..Len(a) : a[k] < b[k] /\ \A j \in 1..(k - 1) : a[j] = b[j]

odd(a) == a[Len(a)] % 2 = 1

half(a) ==
    stripZeros([k \in 1..Len(a) |->
                   ((IF k > 1 THEN (a[k - 1] % 2) * 10 ELSE 0) + a[k]) \div 2])

double(a) ==
    LET b == <<0>> \o a
    IN  stripZeros([k \in 1..Len(b) |->
                       ((2 * b[k]) % 10) + (IF k < Len(b) /\ b[k + 1] >= 5 THEN 1 ELSE 0)])

\* the carry into digit k of x + y, for x and y of one length: a pair of
\* digits further down gives a carry, and every pair between passes it on
carryInto(x, y, k) ==
    \E j \in (k + 1)..Len(x) :
        x[j] + y[j] >= 10 /\ \A i \in (k + 1)..(j - 1) : x[i] + y[i] = 9

add(a, b) ==
    LET n == 1 + (IF Len(a) > Len(b) THEN Len(a) ELSE Len(b))
        x == zeros(n - Len(a)) \o a
        y == zeros(n - Len(b)) \o b
    IN  stripZeros([k \in 1..n |->
                       (x[k] + y[k] + (IF carryInto(x, y, k) THEN 1 ELSE 0)) % 10])

\* the borrow from digit k of x - y, for x and y of one length
borrowFrom(x, y, k) ==
    \E j \in (k + 1)..Len(x) :
        x[j] < y[j] /\ \A i \in (k + 1)..(j - 1) : x[i] = y[i]

\* a - b, for a >= b
sub(a, b) ==
    LET y == zeros(Len(a) - Len(b)) \o b
    IN  stripZeros([k \in 1..Len(a) |->
                       (a[k] - y[k] - (IF borrowFrom(a, y, k) THEN 1 ELSE 0) + 10) % 10])

\* a * 2^e and the whole part of a / 2^e, by halves of e
RECURSIVE timesPowerOfTwo(_, _)
timesPowerOfTwo(a, e) ==
    IF e = 0 \/ a = <<0>> THEN a
    ELSE IF e = 1 THEN double(a)
    ELSE timesPowerOfTwo(timesPowerOfTwo(a, e \div 2), e - (e \div 2))

RECURSIVE overPowerOfTwo(_, _)
overPowerOfTwo(a, e) ==
    IF e = 0 \/ a = <<0>> THEN a
    ELSE IF e = 1 THEN half(a)
    ELSE overPowerOfTwo(overPowerOfTwo(a, e \div 2), e - (e \div 2))

\* 2^52 and 2^53: a double has 53 bits
Two52 == <<4, 5, 0, 3, 5, 9, 9, 6, 2, 7, 3, 7, 0, 4, 9, 6>>

Two53 == <<9, 0, 0, 7, 1, 9, 9, 2, 5, 4, 7, 4, 0, 9, 9, 2>>

\* the greatest binary exponent of a finite double with 53 bits
MaxExponent == 971

\* the number of bits of an integer below its leading 53 bits
RECURSIVE bitsBelow(_)
bitsBelow(a) ==
    IF less(a, Two53) THEN 0
    ELSE IF less(overPowerOfTwo(a, 32), Two53) THEN 1 + bitsBelow(half(a))
    ELSE 32 + bitsBelow(overPowerOfTwo(a, 32))

\* whether the double nearest to n is above its leading 53 bits, ties to
\* even: of the e bits below them the first is set, and another one or the
\* last of the leading bits is
roundsUp(n, e) ==
    /\ e > 0
    /\ odd(overPowerOfTwo(n, e - 1))
    /\ \/ timesPowerOfTwo(overPowerOfTwo(n, e - 1), e - 1) # n
       \/ odd(overPowerOfTwo(n, e))

\* the double q * 2^e with q below 2^53
asDouble(q, e) == IF q = Two53 THEN [q |-> Two52, e |-> e + 1] ELSE [q |-> q, e |-> e]

nearestDoubleAt(n, e) ==
    asDouble(IF roundsUp(n, e) THEN add(overPowerOfTwo(n, e), <<1>>) ELSE overPowerOfTwo(n, e),
             e)

\* the double nearest to an integer
nearestDouble(n) == nearestDoubleAt(n, bitsBelow(n))

\* the first k digits of d, and one more in the last of them
roundedDown(d, k) == [i \in 1..Len(d) |-> IF i <= k THEN d[i] ELSE 0]

roundedUp(d, k) == add(roundedDown(d, k), <<1>> \o zeros(Len(d) - k))

\* whether a decimal reads back as the double between low and high
readsBack(low, decimal, high, inclusive) ==
    IF inclusive
    THEN ~less(decimal, low) /\ ~less(high, decimal)
    ELSE less(low, decimal) /\ less(decimal, high)

\* of two decimals around d the nearer, and the even one when they are as near
nearer(d, down, up, k) ==
    IF less(sub(d, down), sub(up, d)) THEN down
    ELSE IF less(sub(up, d), sub(d, down)) THEN up
    ELSE IF d[k] % 2 = 0 THEN down ELSE up

\* the shortest decimal that reads back as the double d, nearest to d when
\* there are two of a length
RECURSIVE shortest(_, _, _, _, _)
shortest(d, low, high, inclusive, k) ==
    IF k >= Len(d)
    THEN d
    ELSE IF readsBack(low, roundedDown(d, k), high, inclusive)
    THEN IF readsBack(low, roundedUp(d, k), high, inclusive)
         THEN nearer(d, roundedDown(d, k), roundedUp(d, k), k)
         ELSE roundedDown(d, k)
    ELSE IF readsBack(low, roundedUp(d, k), high, inclusive)
    THEN roundedUp(d, k)
    ELSE shortest(d, low, high, inclusive, k + 1)

\* the digits of a decimal without the zeros at its end
significant(v) ==
    SubSeq(v, 1, CHOOSE k \in 1..Len(v) :
                    v[k] # 0 /\ \A j \in (k + 1)..Len(v) : v[j] = 0)

TxtInfinity == <<"I", "n", "f", "i", "n", "i", "t", "y">>

\* the exponent form of the digits s of a decimal of n digits
printExponent(s, n) ==
    <<s[1]>> \o (IF Len(s) > 1 THEN <<".">> \o SubSeq(s, 2, Len(s)) ELSE <<>>)
        \o <<"e", "+">> \o natToChars(n - 1)

\* Number.prototype.toString of a positive integer double given in decimal:
\* all digits up to 21 of them, else the exponent form
printDecimal(v) ==
    IF Len(v) <= 21 THEN charsOf(v) ELSE printExponent(charsOf(significant(v)), Len(v))

\* the double d, which the decimals from d - below to d + above read back as
printBetween(d, below, above, inclusive) ==
    IF d = Two53
    THEN charsOf(d)
    ELSE printDecimal(shortest(d, sub(d, below), add(d, above), inclusive, 1))

\* the double q * 2^e, e > 0: half the gap to the next double is 2^(e-1), and
\* so is half the gap to the one before unless q is 2^52
printDouble(q, e) ==
    IF e > MaxExponent
    THEN TxtInfinity
    ELSE printBetween(timesPowerOfTwo(q, e),
                      timesPowerOfTwo(<<1>>, IF q = Two52 /\ e > 1 THEN e - 2 ELSE e - 1),
                      timesPowerOfTwo(<<1>>, e - 1),
                      ~odd(q))

printNearest(nearest) == printDouble(nearest.q, nearest.e)

\* String(Number(n)) for an integer n without sign
printInteger(n) ==
    IF less(n, Two53) \/ n = Two53
    THEN charsOf(n)
    ELSE IF Len(n) > 309
    THEN TxtInfinity
    ELSE printNearest(nearestDouble(n))

\* the length of the run of digits that starts at index j
digitRun(s, j) ==
    LET others == {k \in j..Len(s) : s[k] \notin Digits}
    IN  IF others = {}
        THEN Len(s) - j + 1
        ELSE (CHOOSE k \in others : \A n \in others : k <= n) - j

\* the number with its sign; -0 prints as 0
signed(negative, printed) ==
    IF negative /\ printed # <<"0">> THEN <<"-">> \o printed ELSE printed

\* the integer literal of n digits from index d, after its sign if it has one
numberAt(s, negative, d, n) ==
    IF n = 0 \/ (d + n <= Len(s) /\ s[d + n] \in {".", "e", "E"})
    THEN NotParsed
    ELSE Parsed(JsonValue("number",
                          signed(negative, printInteger(digitsOf(SubSeq(s, d, d + n - 1))))),
                d + n)

digitsAt(s, negative, d) ==
    numberAt(s, negative, d, IF d <= Len(s) /\ s[d] = "0" THEN 1 ELSE digitRun(s, d))

\* an integer literal; the value is kept as String prints the number read
parseNumber(s, i) == digitsAt(s, s[i] = "-", IF s[i] = "-" THEN i + 1 ELSE i)

RECURSIVE parseValue(_, _)
RECURSIVE parseElements(_, _, _)
RECURSIVE parseMembers(_, _, _)
parseValue(s, from) ==
    LET i == skipWhiteSpace(s, from)
    IN  IF i > Len(s)
        THEN NotParsed
        ELSE IF s[i] = "\""
        THEN scanString(s, i + 1, <<>>)
        ELSE IF s[i] = "["
        THEN LET j == skipWhiteSpace(s, i + 1)
             IN  IF j <= Len(s) /\ s[j] = "]"
                 THEN Parsed(JsonValue("array", <<>>), j + 1)
                 ELSE parseElements(s, i + 1, <<>>)
        ELSE IF s[i] = "{"
        THEN LET j == skipWhiteSpace(s, i + 1)
             IN  IF j <= Len(s) /\ s[j] = "}"
                 THEN Parsed(JsonValue("object", <<>>), j + 1)
                 ELSE parseMembers(s, i + 1, <<>>)
        ELSE IF literalAt(s, i, TxtNull)
        THEN Parsed(JsonValue("null", <<>>), i + Len(TxtNull))
        ELSE IF literalAt(s, i, TxtTrue)
        THEN Parsed(JsonValue("true", <<>>), i + Len(TxtTrue))
        ELSE IF literalAt(s, i, TxtFalse)
        THEN Parsed(JsonValue("false", <<>>), i + Len(TxtFalse))
        ELSE IF s[i] \in Digits \cup {"-"}
        THEN parseNumber(s, i)
        ELSE NotParsed

parseElements(s, from, acc) ==
    LET element == parseValue(s, from)
        j == skipWhiteSpace(s, element.next)
    IN  IF ~element.ok \/ j > Len(s)
        THEN NotParsed
        ELSE IF s[j] = ","
        THEN parseElements(s, j + 1, Append(acc, element.value))
        ELSE IF s[j] = "]"
        THEN Parsed(JsonValue("array", Append(acc, element.value)), j + 1)
        ELSE NotParsed

parseMembers(s, from, acc) ==
    LET k == skipWhiteSpace(s, from)
        key == IF k <= Len(s) /\ s[k] = "\"" THEN scanString(s, k + 1, <<>>) ELSE NotParsed
        colon == skipWhiteSpace(s, key.next)
        member == IF key.ok /\ colon <= Len(s) /\ s[colon] = ":"
                  THEN parseValue(s, colon + 1)
                  ELSE NotParsed
        j == skipWhiteSpace(s, member.next)
        members == Append(acc, [key |-> key.value.v, value |-> member.value])
    IN  IF ~member.ok \/ j > Len(s)
        THEN NotParsed
        ELSE IF s[j] = ","
        THEN parseMembers(s, j + 1, members)
        ELSE IF s[j] = "}"
        THEN Parsed(JsonValue("object", members), j + 1)
        ELSE NotParsed

\* JSON.parse: the value, or a SyntaxError thrown
JSONparse(text) ==
    LET parsed == parseValue(text, 1)
    IN  IF parsed.ok /\ skipWhiteSpace(text, parsed.next) > Len(text)
        THEN [threw |-> FALSE, value |-> parsed.value]
        ELSE [threw |-> TRUE, value |-> Undefined]

\* value[name] of a value that is neither null nor undefined: the last
\* member of that name of an object, undefined on anything else
getProperty(value, name) ==
    LET named == IF value.t = "object"
                 THEN {k \in 1..Len(value.v) : value.v[k].key = name}
                 ELSE {}
    IN  IF named = {}
        THEN Undefined
        ELSE value.v[CHOOSE k \in named : \A n \in named : n <= k].value

\* what evaluating an expression does: it returns a value, or throws an
\* Error with a message
Gives(value) == [threw |-> FALSE, value |-> value, message |-> <<>>]

Throws(message) == [threw |-> TRUE, value |-> <<>>, message |-> message]

\* the string a template literal makes of a value.  An object that has a
\* member named toString cannot be converted: the member hides
\* Object.prototype.toString and is no function, and valueOf returns the
\* object
RECURSIVE toString(_)
RECURSIVE joinElements(_)
toString(value) ==
    IF value.t \in {"string", "number"} THEN Gives(value.v)
    ELSE IF value.t = "null" THEN Gives(TxtNull)
    ELSE IF value.t = "true" THEN Gives(TxtTrue)
    ELSE IF value.t = "false" THEN Gives(TxtFalse)
    ELSE IF value.t = "undefined" THEN Gives(TxtUndefined)
    ELSE IF value.t = "array" THEN joinElements(value.v)
    ELSE IF \E k \in 1..Len(value.v) : value.v[k].key = TxtToString
    THEN Throws(MsgNotPrimitive)
    ELSE Gives(TxtObjectObject)

\* Array.prototype.toString: null and undefined elements are left empty
joinElements(items) ==
    IF items = <<>>
    THEN Gives(<<>>)
    ELSE LET first == IF Head(items).t \in {"null", "undefined"}
                      THEN Gives(<<>>)
                      ELSE toString(Head(items))
             rest == joinElements(Tail(items))
         IN  IF first.threw THEN first
             ELSE IF rest.threw THEN rest
             ELSE Gives(first.value
                              \o (IF Len(items) > 1 THEN <<",">> \o rest.value ELSE <<>>))

\* !value
falsy(value) ==
    \/ value.t \in {"undefined", "null", "false"}
    \/ value.t = "number" /\ value.v = <<"0">>
    \/ value.t = "string" /\ value.v = <<>>

\* the first of the results that threw, or all their values
allOf(results) ==
    LET threw == {k \in 1..Len(results) : results[k].threw}
    IN  IF threw = {}
        THEN Gives([k \in 1..Len(results) |-> results[k].value])
        ELSE results[CHOOSE k \in threw : \A n \in threw : k <= n]

\* ensureStringArray: the array it returns, or the TypeError of a template
\* literal
ensureStringArray(value) ==
    IF falsy(value)
    THEN Gives(<<>>)
    ELSE LET items == IF value.t = "array" THEN value.v ELSE <<value>>
         IN  CHOOSE result \in {IF strings.threw
                                THEN strings
                                ELSE Gives(trimAndFilter(strings.value)) :
                                   strings \in {allOf([k \in 1..Len(items) |->
                                                          toString(items[k])])}} : TRUE

\* what cohereClient.chat did: a reply, an Error thrown, another value thrown.
\* content is null or the array of the texts of the parts (null for a part
\* without text), text is null or the string, chat_history is null or the
\* array of entries, role and message of an entry null or a string
ChatReplied(content, text, chat_history) ==
    [kind |-> "replied", message |-> <<>>, content |-> content, text |-> text,
     chat_history |-> chat_history]
ChatThrewError(message) ==
    [kind |-> "error", message |-> message, content |-> Null, text |-> Null,
     chat_history |-> Null]
ChatThrewOther ==
    [kind |-> "other", message |-> <<>>, content |-> Null, text |-> Null,
     chat_history |-> Null]

\* how the promise of extractClinicalData settles; a rejection is with an
\* Error and its message
Resolved(data) ==
    [kind |-> "resolved", data |-> <<data>>, isError |-> FALSE, message |-> <<>>]
Rejected(message) ==
    [kind |-> "rejected", data |-> Null, isError |-> TRUE, message |-> message]

EmptyClinicalData ==
    [symptoms |-> <<>>, history |-> <<>>, assessment |-> <<>>, medications |-> <<>>,
     plan |-> <<>>]

\* the last entry of chat_history whose role is chatbot in any case, or null
lastBot(history) ==
    LET bots == {k \in 1..Len(history) :
                    /\ history[k].role # Null
                    /\ toLowerCase(history[k].role[1]) = TxtChatbot}
    IN  IF bots = {}
        THEN Null
        ELSE <<history[CHOOSE k \in bots : \A n \in bots : n <= k]>>

\* rawText of extractClinicalData as it reaches the emptiness test: the
\* text of message.content, else data.text, else the last chatbot message,
\* with the code fence stripped
rawTextOf(data) ==
    LET fromContent == extractText(data.content)
        fromText == IF fromContent = <<>> /\ data.text # Null
                    THEN trim(data.text[1])
                    ELSE fromContent
        bot == IF data.chat_history = Null THEN Null ELSE lastBot(data.chat_history[1])
        fromHistory == IF fromText = <<>> /\ bot # Null /\ truthy(bot[1].message)
                       THEN trim(bot[1].message[1])
                       ELSE fromText
    IN  stripCodeFence(fromHistory)

\* the fields of the returned data, in the order they are computed
FieldOrder == <<TxtSymptoms, TxtHistory, TxtAssessment, TxtMedications, TxtPlan>>

\* the object extractClinicalData returns for what JSON.parse gave, or the
\* TypeError of computing it
clinicalDataFrom(parsed) ==
    IF parsed.t = "null"
    THEN Rejected(MsgNullSymptoms)
    ELSE CHOOSE result \in {IF fields.threw
                            THEN Rejected(fields.message)
                            ELSE Resolved([symptoms |-> fields.value[1],
                                           history |-> fields.value[2],
                                           assessment |-> fields.value[3],
                                           medications |-> fields.value[4],
                                           plan |-> fields.value[5]]) :
                               fields \in {allOf([k \in 1..Len(FieldOrder) |->
                                   ensureStringArray(getProperty(parsed, FieldOrder[k]))])}} :
             TRUE

\* extractClinicalData from the emptiness test of rawText on
clinicalDataOf(rawText) ==
    IF rawText = <<>>
    THEN Rejected(MsgEmptyContent)
    ELSE CHOOSE result \in {IF parsed.threw
                            THEN Rejected(MsgNotJson)
                            ELSE clinicalDataFrom(parsed.value) :
                               parsed \in {JSONparse(rawText)}} : TRUE

\* extractClinicalData; chat is what cohereClient.chat did
extractClinicalData(transcript, key, chat) ==
    IF transcript = <<>> \/ trim(transcript) = <<>>
    THEN Resolved(EmptyClinicalData)
    ELSE IF key = <<>>
    THEN Rejected(MsgMissingKey)
    ELSE IF trim(transcript) = <<>>
    THEN Rejected(MsgCannotExtract)
    ELSE IF chat.kind = "error"
    THEN Rejected(chat.message)
    ELSE IF chat.kind = "other"
    THEN Rejected(MsgUnexpected)
    ELSE clinicalDataOf(rawTextOf(chat))


draftDisabled(transcript, extracting) == transcript = <<>> \/ extracting

\* handleGenerateDraft up to its await: the state it sets, and whether it
\* called extractClinicalData
handleGenerateDraft(dst, transcript) ==
    IF trim(transcript) = <<>>
    THEN [state |-> [dst EXCEPT !.cohereError = <<MsgTranscriptEmpty>>], called |-> FALSE]
    ELSE [state |-> [dst EXCEPT !.isExtracting = TRUE, !.cohereError = Null],
          called |-> TRUE]

\* the rest of handleGenerateDraft as a slip would have it: isExtracting is
\* reset after setClinicalData, with no finally
handleGenerateDraftSettledNoFinally(dst, result) ==
    IF result.kind = "resolved"
    THEN [dst EXCEPT !.clinicalData = result.data, !.isExtracting = FALSE]
    ELSE [dst EXCEPT !.cohereError =
             <<IF result.isError THEN result.message ELSE MsgFailedToExtract>>]

\* handleGenerateDraft from its await on: try, catch and finally
handleGenerateDraftSettled(dst, result) ==
    IF result.kind = "resolved"
    THEN [dst EXCEPT !.clinicalData = result.data, !.isExtracting = FALSE]
    ELSE [dst EXCEPT !.cohereError =
             <<IF result.isError THEN result.message ELSE MsgFailedToExtract>>,
                    !.isExtracting = FALSE]

(***************************************************************************)
(* The events the engine delivers.                                         *)
(***************************************************************************)
\* alternativeLists: the lists of alternatives a result may carry
Results(alternativeLists) ==
    [isFinal : BOOLEAN, alternatives : alternativeLists]

ResultLists(alternativeLists) ==
    UNION {[1..n -> Results(alternativeLists)] : n \in 0..MaxResults}

\* SpeechRecognitionEventLike: resultIndex may lie at or past the end of results
Events(alternativeLists) ==
    [resultIndex : 0..MaxResults, results : ResultLists(alternativeLists)]

\* the result events of the transcript-accumulation runs
FoldEvents ==
    Events({<<TxtBlank>>, <<TxtChestPain>>, <<TxtForTwo>>, <<TxtPadded>>,
            <<TxtForTwoDays>>})

\* the result events of the session life cycle: a result without an
\* alternative, with a blank one, with a padded one
SessionEvents == Events({<<>>, <<TxtBlank>>, <<TxtPadded>>})

\* the result events of the blank-result runs: a result without an
\* alternative, with the empty text, with a blank text, with a spoken text
SkipEvents == Events({<<>>, <<TxtEmpty>>, <<TxtBlank>>, <<TxtChestPain>>, <<TxtPadded>>})

\* the result events of the draft runs
DraftEvents == Events({<<TxtChestPain>>})

\* what the chat client does with a request.  The replies: JSON in
\* message.content beside a blank text; JSON in a code fence; a code fence
\* alone; the JSON null; prose; an empty object as the last CHATBOT entry
\* of chat_history; nothing at all.  Else an Error, or a thrown value that
\* is no Error
TxtJsonSome ==
    <<"{", "\"", "s", "y", "m", "p", "t", "o", "m", "s", "\"", ":", " ", "[", "\"", "c", "h",
    "e", "s", "t", " ", "p", "a", "i", "n", "\"", ",", " ", "\"", " ", " ", "\"", ",", " ",
    "2", "]", ",", " ", "\"", "p", "l", "a", "n", "\"", ":", " ", "\"", " ", "f", "o", "r",
    " ", "t", "w", "o", " ", "\"", ",", " ", "\"", "h", "i", "s", "t", "o", "r", "y", "\"",
    ":", " ", "n", "u", "l", "l", "}">>

TxtFencedJson ==
    <<"U+0060", "U+0060", "U+0060", "j", "s", "o", "n", "\n", "{", "\"", "s", "y", "m", "p",
    "t", "o", "m", "s", "\"", ":", "[", "\"", "c", "h", "e", "s", "t", " ", "p", "a", "i", "n",
    "\"", "]", "}", "\n", "U+0060", "U+0060", "U+0060">>

TxtFenceOnly ==
    <<"U+0060", "U+0060", "U+0060">>

TxtJsonNull ==
    <<"n", "u", "l", "l">>

TxtJsonEmpty ==
    <<"{", "}">>

TxtRoleChatbot ==
    <<"C", "H", "A", "T", "B", "O", "T">>

TxtRoleUser ==
    <<"U", "S", "E", "R">>

ChatOutcomes ==
    {ChatReplied(<<<<Null, <<TxtJsonSome>>>>>>, <<TxtBlank>>, Null),
     ChatReplied(Null, <<TxtFencedJson>>, Null),
     ChatReplied(Null, <<TxtFenceOnly>>, Null),
     ChatReplied(Null, <<TxtJsonNull>>, Null),
     ChatReplied(<<<<>>>>, <<TxtForTwoDays>>, Null),
     ChatReplied(Null, Null,
                 <<<<[role |-> <<TxtRoleChatbot>>, message |-> <<TxtJsonEmpty>>],
                     [role |-> <<TxtRoleUser>>, message |-> <<TxtChestPain>>]>>>>),
     ChatReplied(Null, Null, Null),
     ChatThrewError(MsgNetwork), ChatThrewOther}

\* event.error of an error event
ErrorCodes == {<<>>, CodeNoSpeech}

(***************************************************************************)
(* State.                                                                  *)
(***************************************************************************)
VARIABLES
    recognitionCtor,    \* what getRecognitionConstructor() returned: "null" or "constructor"
    mounted,            \* the component is mounted (the effect's cleanup has not run)
    recognitionRef,     \* recognitionRef.current: "null" or "recognition"
    handlers,           \* onresult, onerror and onend are registered on the engine
    isListening,        \* React state of the hook
    error,
    interimTranscript,
    finalTranscript,
    engineSessions,     \* recognition sessions the engine has started and not ended
    engineStopping,     \* stop() was called on the running session
    inflight,           \* kinds of the events dispatched by the engine, not yet handled
    last,               \* history: the operation that led here
    earlierFinals,      \* history: texts finalized before the latest successful start
    sessionFinals,      \* history: texts finalized since the latest successful start
    singles,            \* history: the texts of the one-new-final-result events so far
    callerStopped,      \* history: stopListening ran and no start has succeeded since
    clinicalData,       \* React state of the component: null or the extracted data
    isExtracting,
    cohereError,
    cohereApiKey,       \* COHERE_API_KEY of the api module, '' when the environment has none
    extractions,        \* the calls of extractClinicalData that have not settled
    scriptPhase,        \* the streaming script: how far transcribe() has come
    stops,              \* its calls of client.stopRecognition that have not settled
    exited,             \* process.exit was called
    exitCode,           \* with this code
    received            \* history: the Error and EndOfTranscript messages handled

progVars == <<recognitionCtor, mounted, recognitionRef, handlers, isListening, error,
              interimTranscript, finalTranscript>>
engineVars == <<engineSessions, engineStopping, inflight>>
historyVars == <<last, earlierFinals, sessionFinals, singles, callerStopped>>
draftVars == <<clinicalData, isExtracting, cohereError, cohereApiKey, extractions>>
scriptVars == <<scriptPhase, stops, exited, exitCode, received>>
vars == <<progVars, engineVars, historyVars, draftVars, scriptVars>>

\* the React state of the component for the draft
Dst ==
    [clinicalData |-> clinicalData, isExtracting |-> isExtracting,
     cohereError |-> cohereError]

SetDraft(new) ==
    /\ clinicalData' = new.clinicalData
    /\ isExtracting' = new.isExtracting
    /\ cohereError' = new.cohereError

\* the React state of the hook
St ==
    [isListening |-> isListening, error |-> error,
     interimTranscript |-> interimTranscript, finalTranscript |-> finalTranscript]

SetState(new) ==
    /\ isListening' = new.isListening
    /\ error' = new.error
    /\ interimTranscript' = new.interimTranscript
    /\ finalTranscript' = new.finalTranscript

(***************************************************************************)
(* History of the run, for stating the properties.                         *)
(***************************************************************************)
\* s without its leading and trailing white space
Trimmed(s) ==
    IF \A i \in 1..Len(s) : s[i] \in WhiteSpace
    THEN <<>>
    ELSE LET first == CHOOSE i \in 1..Len(s) :
                         s[i] \notin WhiteSpace /\ \A j \in 1..(i - 1) : s[j] \in WhiteSpace
             final == CHOOSE i \in 1..Len(s) :
                         s[i] \notin WhiteSpace /\ \A j \in (i + 1)..Len(s) : s[j] \in WhiteSpace
         IN  SubSeq(s, first, final)

\* the trimmed text of a result's first alternative, <<>> without one
TextOf(result) ==
    IF result.alternatives = <<>> THEN <<>> ELSE Trimmed(result.alternatives[1])

\* previous with the segment appended after a single space
AppendText(previous, segment) ==
    IF segment = <<>> THEN previous
    ELSE IF previous = <<>> THEN segment
    ELSE previous \o SP \o segment

\* s is a prefix of t
IsPrefix(s, t) == Len(s) <= Len(t) /\ SubSeq(t, 1, Len(s)) = s

\* the non-empty texts of the final (or non-final) results list[i ..], in order
RECURSIVE TextsFrom(_, _, _)
TextsFrom(list, i, final) ==
    IF i > Len(list)
    THEN <<>>
    ELSE LET text == IF list[i].isFinal = final THEN TextOf(list[i]) ELSE <<>>
         IN  (IF text # <<>> THEN <<text>> ELSE <<>>) \o TextsFrom(list, i + 1, final)

ScannedTexts(event, final) == TextsFrom(event.results, event.resultIndex + 1, final)

\* texts joined by single spaces
RECURSIVE JoinSpace(_)
JoinSpace(texts) ==
    IF texts = <<>> THEN <<>>
    ELSE IF Len(texts) = 1 THEN texts[1]
    ELSE texts[1] \o SP \o JoinSpace(Tail(texts))

\* the texts of the results of an event, by position
TextsOf(event) == [i \in 1..Len(event.results) |-> TextOf(event.results[i])]

\* the positions i .. of the results, in order, without the positions after
\* from whose text is empty: what is left when those results are removed
RECURSIVE WithoutBlank(_, _, _)
WithoutBlank(texts, i, from) ==
    IF i > Len(texts)
    THEN <<>>
    ELSE (IF i > from /\ texts[i] = <<>> THEN <<>> ELSE <<i>>)
         \o WithoutBlank(texts, i + 1, from)

\* the text of every final (or non-final) result among those left, from the
\* j-th on, none skipped
RECURSIVE EveryText(_, _, _, _, _)
EveryText(event, texts, left, j, final) ==
    IF j > Len(left)
    THEN <<>>
    ELSE (IF event.results[left[j]].isFinal = final THEN <<texts[left[j]]>> ELSE <<>>)
         \o EveryText(event, texts, left, j + 1, final)

\* the final and the interim text of the event with its blank results after
\* position from removed and resultIndex as it was: every text from
\* resultIndex on, with a space between every two
SegmentsWithoutBlank(event, from) ==
    LET texts == TextsOf(event)
        left == WithoutBlank(texts, 1, from)
    IN  [final |-> JoinSpace(EveryText(event, texts, left, event.resultIndex + 1, TRUE)),
         interim |-> JoinSpace(EveryText(event, texts, left, event.resultIndex + 1, FALSE)),
         blanks |-> Len(texts) - Len(left)]

\* the event finalizes exactly one new result, and resultIndex points at it
OneNewFinal(event) ==
    /\ event.resultIndex < Len(event.results)
    /\ event.results[event.resultIndex + 1].isFinal
    /\ TextOf(event.results[event.resultIndex + 1]) # <<>>
    /\ \A i \in (event.resultIndex + 2)..Len(event.results) : ~event.results[i].isFinal

\* the events of the two worked examples
ExampleFirst ==
    [resultIndex |-> 0,
     results |-> <<[isFinal |-> TRUE, alternatives |-> <<TxtChestPain>>],
                   [isFinal |-> FALSE, alternatives |-> <<TxtForTwo>>]>>]

ExampleNextAsStated ==
    [resultIndex |-> 1,
     results |-> <<[isFinal |-> TRUE, alternatives |-> <<TxtForTwoDays>>]>>]

ExampleNextCumulative ==
    [resultIndex |-> 1,
     results |-> <<[isFinal |-> TRUE, alternatives |-> <<TxtChestPain>>],
                   [isFinal |-> TRUE, alternatives |-> <<TxtForTwoDays>>]>>]

ExampleTag(event) ==
    IF event = ExampleFirst THEN "first"
    ELSE IF event = ExampleNextAsStated THEN "nextAsStated"
    ELSE IF event = ExampleNextCumulative THEN "nextCumulative"
    ELSE "none"

NoSegments == [final |-> <<>>, interim |-> <<>>, blanks |-> 0]

\* the record of an operation other than a result event
LastOp(op) ==
    [op |-> op, fromZeroAllInterim |-> FALSE, pastEnd |-> FALSE,
     finalTexts |-> <<>>, interimTexts |-> <<>>, example |-> "none",
     withoutBlank |-> NoSegments, withoutBlankScanned |-> NoSegments]

\* the record of a result event; the texts the event would give without its
\* blank results are recorded in the runs that audit them
LastResult(event, audit) ==
    [op |-> "result",
     fromZeroAllInterim |-> /\ event.resultIndex = 0
                            /\ \A i \in 1..Len(event.results) : ~event.results[i].isFinal,
     pastEnd |-> event.resultIndex >= Len(event.results),
     finalTexts |-> ScannedTexts(event, TRUE),
     interimTexts |-> ScannedTexts(event, FALSE),
     example |-> ExampleTag(event),
     withoutBlank |-> IF audit
                      THEN SegmentsWithoutBlank(event, 0)
                      ELSE NoSegments,
     withoutBlankScanned |-> IF audit
                             THEN SegmentsWithoutBlank(event, event.resultIndex)
                             ELSE NoSegments]

(***************************************************************************)
(* The platform: the global object, if there is one, with the recognition  *)
(* constructors it defines.                                                *)
(***************************************************************************)
Windows ==
    [defined : BOOLEAN,
     SpeechRecognition : {"undefined", "constructor"},
     webkitSpeechRecognition : {"undefined", "constructor"}]

\* getRecognitionConstructor
getRecognitionConstructor(window) ==
    IF ~window.defined
    THEN "null"
    ELSE IF window.SpeechRecognition # "undefined"
         THEN window.SpeechRecognition
         ELSE IF window.webkitSpeechRecognition # "undefined"
              THEN window.webkitSpeechRecognition
              ELSE "null"

(***************************************************************************)
(* The engine.                                                             *)
(***************************************************************************)
\* recognition.start(): an engine that is already started rejects the call; an
\* idle one starts, or fails with an exception of its own
EngineStartOutcomes ==
    IF engineSessions > 0
    THEN {ThrewError(MsgAlreadyStarted)}
    ELSE {Returned, ThrewError(MsgOperationNotSupported), ThrewOther}

\* recognition.stop(): a running session starts to stop; a redundant call
\* returns or throws
EngineStopOutcomes ==
    IF engineSessions > 0 /\ ~engineStopping
    THEN {Returned}
    ELSE {Returned, ThrewOther}

\* recognition.abort(): returns, or throws when no session was started
EngineAbortOutcomes ==
    IF engineSessions > 0
    THEN {Returned}
    ELSE {Returned, ThrewOther}

\* the component's state of the draft before the first click, with the API
\* key the module read from the environment
InitDraft(key) ==
    /\ clinicalData = Null
    /\ isExtracting = FALSE
    /\ cohereError = Null
    /\ cohereApiKey = key
    /\ extractions = <<>>

\* the streaming script is a program of its own: here it does not run
ScriptNotRun ==
    /\ scriptPhase = "notRun"
    /\ stops = <<>>
    /\ exited = FALSE
    /\ exitCode = 0
    /\ received = <<>>

(***************************************************************************)
(* Initial states: the state after the mount effect ran, with and without  *)
(* a recognition constructor on the platform.                              *)
(***************************************************************************)
Init ==
    /\ mounted = TRUE
    /\ \E window \in Windows :
          LET supported == getRecognitionConstructor(window) # "null"
          IN  /\ recognitionCtor = getRecognitionConstructor(window)
              /\ recognitionRef = IF supported THEN "recognition" ELSE "null"
              /\ handlers = supported
              /\ error = IF supported THEN Null ELSE <<MsgNotSupported>>
    /\ isListening = FALSE
    /\ interimTranscript = <<>>
    /\ finalTranscript = <<>>
    /\ engineSessions = 0
    /\ engineStopping = FALSE
    /\ inflight = <<>>
    /\ last = LastOp("mount")
    /\ earlierFinals = <<>>
    /\ sessionFinals = <<>>
    /\ singles = [ok |-> TRUE, texts |-> <<>>]
    /\ callerStopped = FALSE
    /\ InitDraft(TxtKey)
    /\ ScriptNotRun

(***************************************************************************)
(* Operations of the caller: the Start and Stop buttons, and unmounting.   *)
(***************************************************************************)
\* a click on Start, which the component enables unless startDisabled
StartListening ==
    /\ mounted
    /\ ~startDisabled(St)
    /\ \E outcome \in EngineStartOutcomes :
          LET started == recognitionRef # "null" /\ outcome.kind = "returned"
          IN  /\ SetState(startListening(St, recognitionRef, outcome))
              /\ engineSessions' = IF started THEN engineSessions + 1 ELSE engineSessions
              /\ engineStopping' = IF started THEN FALSE ELSE engineStopping
              /\ last' = LastOp(IF started THEN "start"
                                ELSE IF engineSessions > 0 THEN "startRejected"
                                ELSE "startFailed")
              /\ earlierFinals' = IF started THEN earlierFinals \o sessionFinals
                                  ELSE earlierFinals
              /\ sessionFinals' = IF started THEN <<>> ELSE sessionFinals
              /\ callerStopped' = IF started THEN FALSE ELSE callerStopped
    /\ UNCHANGED <<draftVars, scriptVars, recognitionCtor, mounted, recognitionRef, handlers, inflight, singles>>

\* a click on Stop, which the component enables unless stopDisabled
StopListening ==
    /\ mounted
    /\ ~stopDisabled(St)
    /\ \E outcome \in EngineStopOutcomes :
          /\ SetState(stopListening(St, recognitionRef, outcome))
          /\ engineStopping' = IF /\ recognitionRef # "null"
                                  /\ engineSessions > 0
                                  /\ outcome.kind = "returned"
                               THEN TRUE
                               ELSE engineStopping
          /\ last' = LastOp(IF outcome.kind = "returned" THEN "stop" ELSE "stopThrew")
    /\ callerStopped' = (recognitionRef # "null")
    /\ UNCHANGED <<draftVars, scriptVars, recognitionCtor, mounted, recognitionRef, handlers, engineSessions, inflight,
                   earlierFinals, sessionFinals, singles>>

\* the cleanup of the mount effect: the handlers are unregistered, the engine
\* is stopped and aborted, the handle is dropped
Unmount ==
    /\ mounted
    /\ mounted' = FALSE
    /\ IF recognitionRef # "null"
       THEN \E stopOutcome \in EngineStopOutcomes, abortOutcome \in EngineAbortOutcomes :
               LET after == cleanup(handlers, recognitionRef, stopOutcome, abortOutcome)
               IN  /\ handlers' = after.handlers
                   /\ recognitionRef' = after.recognitionRef
                   /\ engineSessions' = 0
                   /\ engineStopping' = FALSE
                   /\ last' = LastOp(IF /\ stopOutcome.kind = "returned"
                                        /\ abortOutcome.kind = "returned"
                                     THEN "unmount"
                                     ELSE "unmountThrew")
       ELSE /\ UNCHANGED <<handlers, engineSessions, engineStopping, recognitionRef>>
            /\ last' = LastOp("unmount")
    /\ UNCHANGED <<draftVars, scriptVars, recognitionCtor, isListening, error, interimTranscript,
                   finalTranscript, inflight,
                   earlierFinals, sessionFinals, singles, callerStopped>>

(***************************************************************************)
(* Steps of the engine: while a session is started (running or stopping)   *)
(* it dispatches result and error events, and it ends the session with an  *)
(* end event.  A dispatched event is in flight until the runtime runs its   *)
(* handler; the payload of an event is drawn when it is handled, which     *)
(* nothing reads before.                                                   *)
(***************************************************************************)
EngineEmit(kind) ==
    /\ engineSessions > 0
    /\ Len(inflight) < MaxInflight
    /\ inflight' = Append(inflight, kind)
    /\ last' = LastOp("engine")
    /\ UNCHANGED <<draftVars, scriptVars, progVars, earlierFinals, sessionFinals, singles, callerStopped>>

EngineEmitResult ==
    /\ EngineEmit("result")
    /\ UNCHANGED <<engineSessions, engineStopping>>

EngineEmitError ==
    /\ EngineEmit("error")
    /\ UNCHANGED <<engineSessions, engineStopping>>

EngineEmitEnd ==
    /\ EngineEmit("end")
    /\ engineSessions' = engineSessions - 1
    /\ engineStopping' = FALSE

(***************************************************************************)
(* Delivery of the event in flight to its handler.                         *)
(***************************************************************************)
DeliverResult(events, audit) ==
    /\ handlers
    /\ inflight # <<>> /\ Head(inflight) = "result"
    /\ \E event \in events :
          LET new == onresult(St, event)
          IN  /\ Len(new.finalTranscript) <= MaxFinalLen
              /\ SetState(new)
              /\ last' = LastResult(event, audit)
              /\ sessionFinals' = sessionFinals \o ScannedTexts(event, TRUE)
              /\ singles' =
                    IF singles.ok /\ OneNewFinal(event)
                    THEN [ok |-> TRUE,
                          texts |-> Append(singles.texts,
                                           TextOf(event.results[event.resultIndex + 1]))]
                    ELSE [ok |-> FALSE, texts |-> <<>>]
    /\ inflight' = Tail(inflight)
    /\ UNCHANGED <<draftVars, scriptVars, recognitionCtor, mounted, recognitionRef, handlers, engineSessions, engineStopping,
                   earlierFinals, callerStopped>>

DeliverError ==
    /\ handlers
    /\ inflight # <<>> /\ Head(inflight) = "error"
    /\ \E code \in ErrorCodes : SetState(onerror(St, code))
    /\ inflight' = Tail(inflight)
    /\ last' = LastOp(IF isListening THEN "error" ELSE "errorIdle")
    /\ UNCHANGED <<draftVars, scriptVars, recognitionCtor, mounted, recognitionRef, handlers, engineSessions, engineStopping,
                   earlierFinals, sessionFinals, singles, callerStopped>>

\* the end event as a slip would handle it: a session that the caller did not
\* stop is started again
DeliverEndRestart ==
    /\ handlers
    /\ inflight # <<>> /\ Head(inflight) = "end"
    /\ IF isListening /\ engineSessions = 0
       THEN /\ SetState([St EXCEPT !.interimTranscript = <<>>])
            /\ engineSessions' = 1
       ELSE /\ SetState(onend(St))
            /\ engineSessions' = engineSessions
    /\ inflight' = Tail(inflight)
    /\ last' = LastOp("end")
    /\ UNCHANGED <<draftVars, scriptVars, recognitionCtor, mounted, recognitionRef, handlers, engineStopping,
                   earlierFinals, sessionFinals, singles, callerStopped>>

DeliverEnd ==
    /\ handlers
    /\ inflight # <<>> /\ Head(inflight) = "end"
    /\ SetState(onend(St))
    /\ inflight' = Tail(inflight)
    /\ last' = LastOp("end")
    /\ UNCHANGED <<draftVars, scriptVars, recognitionCtor, mounted, recognitionRef, handlers, engineSessions, engineStopping,
                   earlierFinals, sessionFinals, singles, callerStopped>>

\* an event dispatched to an engine whose handlers are null runs nothing
DropEvent ==
    /\ ~handlers
    /\ inflight # <<>>
    /\ inflight' = Tail(inflight)
    /\ last' = LastOp("dropped")
    /\ UNCHANGED <<draftVars, scriptVars, progVars, engineSessions, engineStopping,
                   earlierFinals, sessionFinals, singles, callerStopped>>

(***************************************************************************)
(* The session life cycle.                                                 *)
(***************************************************************************)
Next ==
    \/ StartListening
    \/ StopListening
    \/ Unmount
    \/ EngineEmitResult
    \/ EngineEmitError
    \/ EngineEmitEnd
    \/ DeliverResult(SessionEvents, FALSE)
    \/ DeliverError
    \/ DeliverEnd
    \/ DropEvent

Spec == Init /\ [][Next]_vars

(***************************************************************************)
(* The life cycle with its scheduling: an engine that was told to stop     *)
(* ends its session, and the runtime runs the handler of every event that  *)
(* was dispatched while the handlers are registered.                       *)
(***************************************************************************)
SpecLive ==
    /\ Spec
    /\ SF_vars(engineStopping /\ EngineEmitEnd)
    /\ WF_vars(DeliverResult(SessionEvents, FALSE))
    /\ WF_vars(DeliverError)
    /\ WF_vars(DeliverEnd)

(***************************************************************************)
(* Transcript accumulation: a session that was started and is listening    *)
(* receives result events over the full vocabulary.                        *)
(***************************************************************************)
InitListening ==
    /\ recognitionCtor = "constructor"
    /\ mounted = TRUE
    /\ recognitionRef = "recognition"
    /\ handlers = TRUE
    /\ isListening = TRUE
    /\ error = Null
    /\ interimTranscript = <<>>
    /\ finalTranscript = <<>>
    /\ engineSessions = 1
    /\ engineStopping = FALSE
    /\ inflight = <<>>
    /\ last = LastOp("start")
    /\ earlierFinals = <<>>
    /\ sessionFinals = <<>>
    /\ singles = [ok |-> TRUE, texts |-> <<>>]
    /\ callerStopped = FALSE

InitFold ==
    /\ InitListening
    /\ InitDraft(TxtKey)
    /\ ScriptNotRun

NextFold ==
    \/ EngineEmitResult
    \/ DeliverResult(FoldEvents, FALSE)

SpecFold == InitFold /\ [][NextFold]_vars

(***************************************************************************)
(* The draft: a click on Generate Draft Note, which the component enables  *)
(* unless draftDisabled, and the settling of a call of extractClinicalData,*)
(* while the session goes on receiving result events.                      *)
(***************************************************************************)
GenerateDraft ==
    /\ mounted
    /\ ~draftDisabled(finalTranscript, isExtracting)
    /\ Len(extractions) < MaxExtractions
    /\ LET begun == handleGenerateDraft(Dst, finalTranscript)
       IN  /\ SetDraft(begun.state)
           /\ extractions' = IF begun.called
                              THEN Append(extractions, [transcript |-> finalTranscript])
                              ELSE extractions
           /\ last' = LastOp(IF begun.called THEN "draft" ELSE "draftEmpty")
    /\ UNCHANGED <<progVars, engineVars, earlierFinals, sessionFinals, singles,
                   callerStopped, cohereApiKey, scriptVars>>

ExtractionSettles ==
    /\ mounted
    /\ \E i \in 1..Len(extractions), chat \in ChatOutcomes :
          LET result == extractClinicalData(extractions[i].transcript, cohereApiKey, chat)
          IN  /\ SetDraft(handleGenerateDraftSettled(Dst, result))
              /\ extractions' = SubSeq(extractions, 1, i - 1)
                                   \o SubSeq(extractions, i + 1, Len(extractions))
              /\ last' = LastOp(result.kind)
    /\ UNCHANGED <<progVars, engineVars, earlierFinals, sessionFinals, singles,
                   callerStopped, cohereApiKey, scriptVars>>

InitDraftRun ==
    /\ InitListening
    /\ \E key \in {TxtEmpty, TxtKey} : InitDraft(key)
    /\ ScriptNotRun

NextDraft ==
    \/ EngineEmitResult
    \/ DeliverResult(DraftEvents, FALSE)
    \/ GenerateDraft
    \/ ExtractionSettles

SpecDraft == InitDraftRun /\ [][NextDraft]_vars

(***************************************************************************)
(* The streaming script.  A call of client.stopRecognition is pending      *)
(* until its promise settles; what is kept of it is the callback chained   *)
(* to the promise with finally: process.exit with a code, or none.  The    *)
(* calls are kept in the order they were made and settle in any order, by  *)
(* resolving or rejecting.                                                 *)
(***************************************************************************)
StopThenExit(code) == [exits |-> TRUE, code |-> code]
StopOnly == [exits |-> FALSE, code |-> 0]

\* logTranscript: the calls of stopRecognition it makes for a message
logTranscript(message) ==
    IF message = "AddTranscript"
    THEN <<>>
    ELSE IF message = "EndOfTranscript"
         THEN <<StopThenExit(0)>>
         ELSE IF message = "Error"
              THEN <<StopThenExit(1)>>
              ELSE <<>>

\* shutdown, the handler of SIGINT and SIGTERM
shutdown == <<StopThenExit(0)>>

\* the catch of transcribe()
transcribeCatch == <<StopThenExit(1)>>

\* the handlers of the stream (response end, response error, request error):
\* each calls stopRecognition and chains nothing to the promise
streamHandler == <<StopOnly>>

ServerMessages == {"AddTranscript", "EndOfTranscript", "Error"}

\* a step of the running script that makes the calls of stopRecognition made
ScriptStep(op, phase, made) ==
    /\ scriptPhase # "notRun"
    /\ ~exited
    /\ Len(stops) + Len(made) <= MaxStops
    /\ scriptPhase' = phase
    /\ stops' = stops \o made
    /\ last' = LastOp(op)
    /\ UNCHANGED <<progVars, engineVars, earlierFinals, sessionFinals, singles,
                   callerStopped, draftVars, exited, exitCode>>

\* transcribe: createSpeechmaticsJWT resolves or rejects
JwtSettles ==
    /\ scriptPhase = "jwt"
    /\ \/ ScriptStep("jwt", "starting", <<>>)
       \/ ScriptStep("transcribeFailed", "failed", transcribeCatch)
    /\ UNCHANGED received

\* transcribe: client.start resolves, and the request is made, or rejects
StartSettles ==
    /\ scriptPhase = "starting"
    /\ \/ ScriptStep("started", "requesting", <<>>)
       \/ ScriptStep("transcribeFailed", "failed", transcribeCatch)
    /\ UNCHANGED received

\* the response of the stream arrives
StreamResponse ==
    /\ scriptPhase = "requesting"
    /\ ScriptStep("response", "streaming", <<>>)
    /\ UNCHANGED received

\* an event of the stream runs its handler: the response ends or fails, once
\* its handlers are registered by the response callback, or the request
\* fails, once https.get has returned it.  The handlers are registered with
\* on and never removed, and none of them looks at what ran before, so every
\* further event makes another call of stopRecognition: a connection that is
\* reset after the response has arrived fails the response and the request
StreamStops ==
    /\ \/ /\ scriptPhase = "streaming"
          /\ \E event \in {"responseEnd", "responseError"} :
                ScriptStep(event, scriptPhase, streamHandler)
       \/ /\ scriptPhase \in {"requesting", "streaming"}
          /\ ScriptStep("requestError", scriptPhase, streamHandler)
    /\ UNCHANGED received

\* a message the client dispatches is handled by logTranscript: the listener
\* is registered at the top level, before transcribe() is called, and is
\* never removed, so it runs in every phase of the running script
ReceiveMessage ==
    /\ scriptPhase \in {"jwt", "starting", "requesting", "streaming", "failed"}
    /\ Len(received) < MaxMessages
    /\ \E message \in ServerMessages :
          /\ ScriptStep("message", scriptPhase, logTranscript(message))
          /\ received' = IF message = "AddTranscript"
                           THEN received
                           ELSE Append(received, message)

\* SIGINT or SIGTERM
Signal ==
    /\ ScriptStep("signal", scriptPhase, shutdown)
    /\ UNCHANGED received

\* how a promise of stopRecognition settles
StopOutcomes == {"resolved", "rejected"}

\* the process after a call of stopRecognition settled.  A finally callback
\* runs on resolution and on rejection alike, and calls process.exit.  A
\* call without a callback that rejects is an unhandled rejection, on which
\* Node (since version 15) ends the process with exit code 1
afterStop(call, outcome, code) ==
    IF call.exits
    THEN [exited |-> TRUE, exitCode |-> call.code]
    ELSE IF outcome = "rejected"
    THEN [exited |-> TRUE, exitCode |-> 1]
    ELSE [exited |-> FALSE, exitCode |-> code]

\* the pending calls without the i-th
withoutCall(calls, i) == SubSeq(calls, 1, i - 1) \o SubSeq(calls, i + 1, Len(calls))

\* a pending call of stopRecognition settles: any of them, since each
\* callback is chained to the promise of its own call and nothing orders
\* the promises
StopSettles ==
    /\ scriptPhase # "notRun"
    /\ ~exited
    /\ stops # <<>>
    /\ \E i \in 1..Len(stops), outcome \in StopOutcomes :
          /\ exited' = afterStop(stops[i], outcome, exitCode).exited
          /\ exitCode' = afterStop(stops[i], outcome, exitCode).exitCode
          /\ stops' = withoutCall(stops, i)
          /\ last' = LastOp(IF outcome = "resolved" THEN "stopSettled" ELSE "stopRejected")
    /\ UNCHANGED <<progVars, engineVars, earlierFinals, sessionFinals, singles,
                   callerStopped, draftVars, scriptPhase, received>>

\* no component is mounted where the script runs
NoComponent ==
    /\ recognitionCtor = "null"
    /\ mounted = FALSE
    /\ recognitionRef = "null"
    /\ handlers = FALSE
    /\ isListening = FALSE
    /\ error = Null
    /\ interimTranscript = <<>>
    /\ finalTranscript = <<>>
    /\ engineSessions = 0
    /\ engineStopping = FALSE
    /\ inflight = <<>>
    /\ earlierFinals = <<>>
    /\ sessionFinals = <<>>
    /\ singles = [ok |-> TRUE, texts |-> <<>>]
    /\ callerStopped = FALSE
    /\ InitDraft(TxtEmpty)

\* the script after its top level ran: without SPEECHMATICS_API_KEY it has
\* exited with code 1; with it, transcribe() awaits the JWT
InitScript ==
    /\ NoComponent
    /\ last = LastOp("run")
    /\ stops = <<>>
    /\ received = <<>>
    /\ \E apiKey \in {TxtEmpty, TxtKey} :
          IF apiKey = <<>>
          THEN scriptPhase = "top" /\ exited = TRUE /\ exitCode = 1
          ELSE scriptPhase = "jwt" /\ exited = FALSE /\ exitCode = 0

NextScript ==
    \/ JwtSettles
    \/ StartSettles
    \/ StreamResponse
    \/ StreamStops
    \/ ReceiveMessage
    \/ Signal
    \/ StopSettles

SpecScript == InitScript /\ [][NextScript]_vars

(***************************************************************************)
(* Blank results: the same session receives result events whose results    *)
(* have no alternative, an empty text, a blank text or a spoken text.      *)
(***************************************************************************)
NextSkip ==
    \/ EngineEmitResult
    \/ DeliverResult(SkipEvents, TRUE)

SpecSkip == InitFold /\ [][NextSkip]_vars

(***************************************************************************)
(* Properties.  A step of the hook is named by the operation last' records *)
(* for it; the unprimed variables are the state before the step.           *)
(***************************************************************************)
StartOps == {"start", "startRejected", "startFailed"}

\* C1: after stopListening, every result event delivered before the next
\* successful start changes neither finalTranscript nor interimTranscript.
C1_LateResultIgnored ==
    [][(callerStopped /\ last'.op = "result")
          => /\ finalTranscript' = finalTranscript
             /\ interimTranscript' = interimTranscript]_vars

\* C2: after N result events that each finalize exactly one new result at
\* resultIndex, finalTranscript is the N finalized texts joined by single
\* spaces in their order.
C2_OneFinalPerEventJoin ==
    singles.ok => finalTranscript = JoinSpace(singles.texts)

C2_Witness ==
    /\ singles.ok
    /\ last.op = "result"
    /\ Len(singles.texts) = 2
    /\ singles.texts[1] # singles.texts[2]

\* C3: finalTranscript is append-only: over every step the previous
\* finalTranscript is a prefix of the new one.
C3_FinalAppendOnly ==
    [][IsPrefix(finalTranscript, finalTranscript')]_vars

C3_Witness ==
    /\ last.op = "result"
    /\ earlierFinals # <<>>
    /\ last.finalTexts # <<>>
    /\ callerStopped

\* C4 as stated: from finalTranscript = "chest pain", the event with results
\* [{final, "for two days"}] and resultIndex 1 yields
\* finalTranscript = "chest pain for two days" and interimTranscript = "".
C4_AsStated ==
    [][(/\ finalTranscript = TxtChestPain
        /\ last'.op = "result"
        /\ last'.example = "nextAsStated")
          => /\ finalTranscript' = TxtChestPain \o SP \o TxtForTwoDays
             /\ interimTranscript' = <<>>]_vars

\* C4 (amended): from finalTranscript = "chest pain", the event with the
\* cumulative results [{final, "chest pain"}, {final, "for two days"}] and
\* resultIndex 1 yields finalTranscript = "chest pain for two days" and
\* interimTranscript = ""; the event with results [{final, "for two days"}]
\* and resultIndex 1 scans nothing and leaves finalTranscript = "chest pain".
C4_CumulativeNextEvent ==
    [][/\ (/\ finalTranscript = TxtChestPain
           /\ last'.op = "result"
           /\ last'.example = "nextCumulative")
             => /\ finalTranscript' = TxtChestPain \o SP \o TxtForTwoDays
                /\ interimTranscript' = <<>>
       /\ (/\ finalTranscript = TxtChestPain
           /\ last'.op = "result"
           /\ last'.example = "nextAsStated")
             => /\ finalTranscript' = TxtChestPain
                /\ interimTranscript' = <<>>]_vars

C4_Witness ==
    /\ last.op = "result"
    /\ last.example = "nextCumulative"
    /\ sessionFinals = <<TxtChestPain, TxtForTwoDays>>
    /\ finalTranscript = TxtChestPain \o SP \o TxtForTwoDays

\* C5: an event with final and non-final texts in its scanned range appends
\* the final texts to finalTranscript and sets interimTranscript to the
\* non-final texts in the same step; from finalTranscript = "" the event
\* [{final, "chest pain"}, {non-final, "for two"}] with resultIndex 0 yields
\* finalTranscript = "chest pain" and interimTranscript = "for two".
C5_FinalAndInterimInOneStep ==
    [][/\ (/\ last'.op = "result"
           /\ last'.finalTexts # <<>>
           /\ last'.interimTexts # <<>>)
             => /\ finalTranscript' =
                      AppendText(finalTranscript, JoinSpace(last'.finalTexts))
                /\ interimTranscript' = JoinSpace(last'.interimTexts)
       /\ (/\ finalTranscript = <<>>
           /\ last'.op = "result"
           /\ last'.example = "first")
             => /\ finalTranscript' = TxtChestPain
                /\ interimTranscript' = TxtForTwo]_vars

C5_Witness ==
    /\ last.op = "result"
    /\ last.example = "first"
    /\ finalTranscript = TxtChestPain
    /\ interimTranscript = TxtForTwo

\* C6: finalTranscript is the single-space join, in order, of every finalized
\* text scanned so far, and an event whose scanned results are all non-final
\* leaves it unchanged, so it does not depend on the interim events.
C6_FinalIsFoldOfFinalTexts ==
    /\ [](finalTranscript = JoinSpace(earlierFinals \o sessionFinals))
    /\ [][(last'.op = "result" /\ last'.finalTexts = <<>>)
             => finalTranscript' = finalTranscript]_vars

C6_Witness ==
    /\ last.op = "result"
    /\ last.finalTexts = <<>>
    /\ last.interimTexts # <<>>
    /\ Len(sessionFinals) = 2

\* C7: at most one engine session is active; while a session is active and
\* the hook is listening the start action is disabled, and a start attempted
\* while a session is active is rejected and changes neither isListening nor
\* the transcripts nor the engine's sessions.
C7_NoSecondSession ==
    /\ [](engineSessions <= 1)
    /\ []((engineSessions > 0 /\ isListening) => startDisabled(St))
    /\ [][(engineSessions > 0 /\ last'.op \in StartOps)
             => /\ last'.op = "startRejected"
                /\ isListening' = isListening
                /\ finalTranscript' = finalTranscript
                /\ interimTranscript' = interimTranscript
                /\ engineSessions' = engineSessions]_vars

C7_Witness ==
    /\ last.op = "startRejected"
    /\ engineSessions = 1
    /\ ~isListening
    /\ error = <<MsgAlreadyStarted>>

\* C8 as stated: the finalTranscript of a session begins empty and holds only
\* the texts finalized since that session's start.
C8_AsStated ==
    finalTranscript = JoinSpace(sessionFinals)

\* C8 (amended): the transcript state is created once, when the hook mounts;
\* a successful start leaves finalTranscript unchanged, so a new session's
\* finalTranscript begins as the text of the earlier sessions and afterwards
\* is that text followed by the texts finalized since the start.
C8_StartKeepsTranscript ==
    /\ [][(last'.op = "start")
             => /\ finalTranscript' = finalTranscript
                /\ finalTranscript' = JoinSpace(earlierFinals')]_vars
    /\ [](finalTranscript =
             AppendText(JoinSpace(earlierFinals), JoinSpace(sessionFinals)))

C8_Witness ==
    /\ isListening
    /\ ~callerStopped
    /\ earlierFinals # <<>>
    /\ sessionFinals # <<>>
    /\ engineSessions = 1

\* C9: an event with resultIndex 0 whose results are all non-final leaves
\* finalTranscript unchanged and sets interimTranscript to the single-space
\* join, in order, of the trimmed non-empty first-alternative texts.
C9_InterimOnlyEvent ==
    [][(last'.op = "result" /\ last'.fromZeroAllInterim)
          => /\ finalTranscript' = finalTranscript
             /\ interimTranscript' = JoinSpace(last'.interimTexts)]_vars

C9_Witness ==
    /\ last.op = "result"
    /\ last.fromZeroAllInterim
    /\ Len(last.interimTexts) = 2
    /\ interimTranscript = TxtForTwo \o SP \o TxtChestPain
    /\ finalTranscript # <<>>

\* C10: an event whose resultIndex is at or past the end of its results
\* leaves finalTranscript unchanged and empties interimTranscript, whatever
\* the results before resultIndex hold.
C10_IndexPastEnd ==
    [][(last'.op = "result" /\ last'.pastEnd)
          => /\ finalTranscript' = finalTranscript
             /\ interimTranscript' = <<>>]_vars

C10_Witness ==
    /\ last.op = "result"
    /\ last.pastEnd
    /\ last.example = "nextAsStated"
    /\ finalTranscript = TxtChestPain
    /\ interimTranscript = <<>>

\* C11 as stated: a result event leaves the state that the same event with
\* all its blank results removed, resultIndex as it was, would leave.
C11_AsStated ==
    [][last'.op = "result"
          => /\ finalTranscript' = AppendText(finalTranscript, last'.withoutBlank.final)
             /\ interimTranscript' = last'.withoutBlank.interim]_vars

\* C11: a result whose first alternative is missing, empty or blank is never
\* appended and adds no separator space: a result event leaves the state that
\* the same event with its blank results at or after resultIndex removed
\* would leave.
C11_BlankResultsSkipped ==
    [][last'.op = "result"
          => /\ finalTranscript' =
                    AppendText(finalTranscript, last'.withoutBlankScanned.final)
             /\ interimTranscript' = last'.withoutBlankScanned.interim]_vars

C11_Witness ==
    /\ last.op = "result"
    /\ last.withoutBlankScanned.blanks > 0
    /\ last.withoutBlankScanned.final # <<>>
    /\ Len(finalTranscript) > Len(last.withoutBlankScanned.final)

\* C12: the end event leaves interimTranscript empty and isListening false,
\* and leaves finalTranscript as it was, from every reachable state.
C12_EndClearsInterim ==
    [][last'.op = "end"
          => /\ interimTranscript' = <<>>
             /\ ~isListening'
             /\ finalTranscript' = finalTranscript]_vars

C12_Witness ==
    /\ last.op = "end"
    /\ finalTranscript # <<>>
    /\ ~callerStopped

\* C13: an error event handled while isListening sets isListening to false
\* and error to a message, and changes neither transcript.
C13_ErrorWhileListening ==
    [][(isListening /\ last'.op = "error")
          => /\ ~isListening'
             /\ error' # Null
             /\ finalTranscript' = finalTranscript
             /\ interimTranscript' = interimTranscript]_vars

C13_Witness ==
    /\ last.op = "error"
    /\ interimTranscript # <<>>
    /\ finalTranscript # <<>>

\* C14: a start that fails leaves the session idle.  When start() throws,
\* isListening is false afterwards, error is a message and both transcripts
\* are as they were; where the mounted component has no engine handle,
\* startListening gives a state of this kind whatever the engine would do.
C14_FailedStartLeavesIdle ==
    /\ [][last'.op \in {"startFailed", "startRejected"}
             => /\ ~isListening'
                /\ error' # Null
                /\ finalTranscript' = finalTranscript
                /\ interimTranscript' = interimTranscript]_vars
    /\ [](mounted /\ recognitionRef = "null"
             => \A outcome \in {Returned, ThrewError(MsgOperationNotSupported), ThrewOther} :
                   LET after == startListening(St, recognitionRef, outcome)
                   IN  /\ ~after.isListening
                       /\ after.error = <<MsgNotAvailable>>
                       /\ after.finalTranscript = finalTranscript
                       /\ after.interimTranscript = interimTranscript)

C14_Witness ==
    /\ last.op = "startFailed"
    /\ ~isListening
    /\ error = <<MsgUnableToStart>>
    /\ finalTranscript # <<>>

\* C15: an error of start() or of the engine is recoverable.  On a platform
\* with a recognition constructor the Start button of the mounted component
\* is enabled whenever isListening is false, whatever the error text, and a
\* start that the engine accepts sets isListening to true and error to null.
C15_ErrorsRecoverable ==
    /\ []((mounted /\ recognitionCtor # "null" /\ ~isListening) => ~startDisabled(St))
    /\ [][last'.op = "start" => (isListening' /\ error' = Null)]_vars

\* C16: on a platform without a recognition constructor the Start button is
\* disabled in every reachable state, isListening is false, the engine has
\* no session, and error is the 'not supported' message.
C16_UnsupportedStaysDisabled ==
    recognitionCtor = "null"
        => /\ startDisabled(St)
           /\ ~isListening
           /\ engineSessions = 0
           /\ recognitionRef = "null"
           /\ error = <<MsgNotSupported>>

C16_Witness ==
    /\ recognitionCtor = "null"
    /\ mounted
    /\ recognitionUnavailable(St)
    /\ stopDisabled(St)

\* C17: an exception of the engine's stop() is swallowed: stopListening,
\* whether stop() returned or threw, leaves error as it was, isListening
\* false, interimTranscript empty and finalTranscript as it was.  An
\* exception of start() becomes the error text: the message of the Error
\* thrown, or 'Unable to start speech recognition.' for any other value.
C17_EngineExceptionsCaught ==
    /\ [][last'.op \in {"stop", "stopThrew"}
             => /\ error' = error
                /\ ~isListening'
                /\ interimTranscript' = <<>>
                /\ finalTranscript' = finalTranscript]_vars
    /\ [][last'.op = "startRejected" => error' = <<MsgAlreadyStarted>>]_vars
    /\ [][last'.op = "startFailed"
             => error' \in {<<MsgOperationNotSupported>>, <<MsgUnableToStart>>}]_vars

C17_Witness ==
    /\ last.op = "stopThrew"
    /\ ~isListening
    /\ error = Null
    /\ finalTranscript # <<>>

\* C18: once the cleanup of the mount effect has run, whether stop() and
\* abort() returned or threw, no handler is registered and the engine handle
\* is null, and no step, an engine event handled afterwards included,
\* changes isListening, error, interimTranscript or finalTranscript.
C18_TeardownSilencesEngine ==
    /\ [](~mounted => (~handlers /\ recognitionRef = "null"))
    /\ [][last'.op \in {"unmount", "unmountThrew"}
             => UNCHANGED <<isListening, error, interimTranscript, finalTranscript>>]_vars
    /\ [][~mounted
             => UNCHANGED <<isListening, error, interimTranscript, finalTranscript>>]_vars

C18_Witness ==
    /\ ~mounted
    /\ last.op = "dropped"
    /\ isListening
    /\ interimTranscript # <<>>

\* C19: after every result event interimTranscript is a function of the
\* event alone, the single-space join of its non-final texts from resultIndex
\* on, whatever interimTranscript and finalTranscript were before; it is
\* empty when the event has no such text.
C19_InterimIsOfTheEventAlone ==
    [][last'.op = "result"
          => /\ interimTranscript' = JoinSpace(last'.interimTexts)
             /\ (last'.interimTexts = <<>> => interimTranscript' = <<>>)]_vars

C19_Witness ==
    /\ last.op = "result"
    /\ last.interimTexts = <<TxtForTwo>>
    /\ last.finalTexts = <<TxtForTwoDays>>
    /\ interimTranscript = TxtForTwo
    /\ Len(finalTranscript) > Len(TxtForTwoDays)

\* C20: nothing restarts the engine by itself: the number of sessions the
\* engine has started grows only in a step of the caller's startListening
\* whose start() returned; no handled result, error or end event, no stop and
\* no unmount starts a session.
C20_NoAutomaticRetry ==
    [][engineSessions' > engineSessions => last'.op = "start"]_vars

C20_Witness ==
    /\ last.op = "end"
    /\ ~callerStopped
    /\ engineSessions = 0
    /\ ~isListening
    /\ error # Null

\* C21 as stated: in no reachable state of the mounted component is
\* isListening true while the engine has no session.
C21_AsStated ==
    (mounted /\ isListening) => engineSessions > 0

\* C21: isListening becomes true only in a step of startListening whose
\* start() returned, and while the mounted component has isListening true
\* the engine has a session, or it has ended the session and its end event
\* is dispatched and not yet handled.
C21_ListeningMeansSession ==
    /\ [][(~isListening /\ isListening') => last'.op = "start"]_vars
    /\ []((mounted /\ isListening)
             => \/ engineSessions > 0
                \/ \E i \in 1..Len(inflight) : inflight[i] = "end")

C21_Witness ==
    /\ mounted
    /\ isListening
    /\ engineSessions = 0
    /\ inflight = <<"end">>
    /\ finalTranscript # <<>>

\* C22: with startListening called only while the Start button is enabled,
\* every reachable state with isListening true has error null, and the status
\* label is 'Listening...' (with the ellipsis character), never an error.
C22_ListeningShowsNoError ==
    isListening => (error = Null /\ statusLabel(St) = LabelListening)

C22_Witness ==
    /\ mounted
    /\ isListening
    /\ last.op = "start"
    /\ earlierFinals # <<>>
    /\ statusLabel(St) = LabelListening

\* the session is over and nothing of it is left to handle
Quiet ==
    /\ ~isListening
    /\ interimTranscript = <<>>
    /\ engineSessions = 0
    /\ inflight = <<>>

\* C23: after stopListening, with an engine that ends the stopped session
\* and a caller that starts no new one, the mounted component reaches a
\* state with isListening false and interimTranscript empty in which nothing
\* of the session is left, whatever result and error events were handled on
\* the way, and it stays with isListening false and interimTranscript empty
\* until the caller starts again.
C23_StopSettles ==
    /\ (callerStopped /\ mounted) ~> (Quiet \/ ~callerStopped \/ ~mounted)
    /\ [][(callerStopped /\ Quiet /\ callerStopped')
             => (~isListening' /\ interimTranscript' = <<>>)]_vars

C23_Witness ==
    /\ mounted
    /\ callerStopped
    /\ last.op = "end"
    /\ Quiet
    /\ finalTranscript # <<>>

\* C24: at most one call of extractClinicalData is unsettled, and one is
\* exactly while isExtracting is true, when the draft button is disabled;
\* when the call resolves isExtracting becomes false and clinicalData is the
\* data; when it rejects isExtracting becomes false, cohereError is a message
\* and clinicalData is as it was; nothing else changes clinicalData.
C24_OneExtractionThatEnds ==
    /\ [](Len(extractions) <= 1)
    /\ [](isExtracting = (extractions # <<>>))
    /\ [](isExtracting => draftDisabled(finalTranscript, isExtracting))
    /\ [][last'.op = "resolved"
             => /\ ~isExtracting'
                /\ clinicalData' # Null
                /\ cohereError' = Null]_vars
    /\ [][last'.op = "rejected"
             => /\ ~isExtracting'
                /\ cohereError' # Null
                /\ clinicalData' = clinicalData]_vars
    /\ [][clinicalData' # clinicalData => last'.op = "resolved"]_vars

C24_Witness ==
    /\ last.op = "rejected"
    /\ ~isExtracting
    /\ cohereError = <<MsgNotJson>>
    /\ clinicalData # Null
    /\ clinicalData[1].symptoms = <<TxtChestPain>>

\* C25: when the streaming script has exited, the exit code is 1 if the
\* first Error or EndOfTranscript message it handled was Error and 0 if it
\* was EndOfTranscript, in every interleaving with the stream's end, request
\* errors and signals; and the process ends only in the step in which a
\* call of stopRecognition settles.
C25_ExitCodeFollowsServer ==
    /\ []((exited /\ received # <<>>)
             => exitCode = (IF received[1] = "Error" THEN 1 ELSE 0))
    /\ [][(~exited /\ exited') => last'.op \in {"stopSettled", "stopRejected"}]_vars

=============================================================================
